---- MODULE Spec2Model ----
(***************************************************************************)
(* Model of pkg/bmcs/client/client.go: the client handle (compartment      *)
(* field) and its operations, one action per backend call an operation     *)
(* issues.  The backend (the BMCS API) is the environment: its answers are *)
(* fixed at Init (read-only snapshots) except for work requests, whose     *)
(* state is observed afresh at every poll, and every backend call may fail *)
(* with a transport error.                                                 *)
(*                                                                         *)
(* Go strings that the code inspects (node names, hostname labels, public  *)
(* IPs) are sequences of characters; opaque ids are TLA+ strings.  A Go    *)
(* pointer result is a sequence of length <= 1 (<<>> is nil), a Go slice   *)
(* is a sequence.  A page cursor is a natural number, 0 being the empty    *)
(* string (no cursor).                                                     *)
(***************************************************************************)
EXTENDS Integers, Sequences, FiniteSets, TLC

VARIABLES
    compartmentOCID,  \* client.compartmentOCID
    backend,          \* what the BMCS API serves (environment, fixed at Init)
    th                \* per caller: the locals of the operation it runs

vars == <<compartmentOCID, backend, th>>

----------------------------------------------------------------------------
(* Bounds *)

MaxPages == 2       \* pages in a listing
MaxPageLen == 2     \* items on one page
MaxCalls == 6       \* backend calls logged for one operation with no own bound
MaxTime == 3        \* creation timestamps are 1..MaxTime

Procs == {1, 2}     \* callers

----------------------------------------------------------------------------
(* Errors.  nil is NilErr. *)

NilErr == [kind |-> "nil", NotFound |-> FALSE, detail |-> <<>>]

\* fmt.Errorf(...) : a plain error value, no NotFound flag
Errorf(what, args) == [kind |-> what, NotFound |-> FALSE, detail |-> args]

\* &SearchError{Err: ..., NotFound: true}
SearchError(what, args) == [kind |-> what, NotFound |-> TRUE, detail |-> args]

\* wait.ErrWaitTimeout, the sentinel ExponentialBackoff returns on exhaustion
ErrWaitTimeout == [kind |-> "ErrWaitTimeout", NotFound |-> FALSE, detail |-> <<>>]

\* errors of the SDK (transport / API failures) as the backend produces them
BackendErrorCodes == {"E429", "E500"}
BackendError(code) == [kind |-> "backend", NotFound |-> FALSE, detail |-> <<code>>]
BackendErrors == {BackendError(c) : c \in BackendErrorCodes}

----------------------------------------------------------------------------
(* The call log of one operation: every backend call it issued, in order.  *)

\* fn: SDK method, comp: compartment passed, arg: id or filter passed,
\* page: cursor passed in the options (0 = none), ok: the call succeeded,
\* ans: the code of the error the call failed with; when it succeeded, for
\* GetWorkRequest the state of the work request it answered with, else ""
CallAns(fn, comp, arg, page, ok, ans) ==
    [fn |-> fn, comp |-> comp, arg |-> arg, page |-> page, ok |-> ok, ans |-> ans]

\* a call with outcome out: <<TRUE, NilErr>> or <<FALSE, error>>
Call(fn, comp, arg, page, out) ==
    CallAns(fn, comp, arg, page, out[1], IF out[1] THEN "" ELSE out[2].detail[1])

CallsTo(log, fn) == {k \in 1..Len(log) : log[k].fn = fn}

----------------------------------------------------------------------------
(* Locals of a caller.  pc = "idle": no operation in flight; "done": the   *)
(* operation returned (result, err).                                       *)

Idle ==
    [pc |-> "idle", op |-> "none", arg |-> <<>>,
     page |-> 0, resp |-> <<>>, next |-> 0, idx |-> 0, cur |-> <<>>,
     acc |-> <<>>, seen |-> {},
     attempt |-> 0, slept |-> 0,
     result |-> <<>>, err |-> NilErr, calls |-> <<>>]

\* return (result, err)
Return(l, result, err) == [l EXCEPT !.pc = "done", !.result = result, !.err = err]

Log(l, c) == [l EXCEPT !.calls = Append(@, c)]

----------------------------------------------------------------------------
(* Work requests *)

WorkRequestSucceeded == "SUCCEEDED"
WorkRequestFailed == "FAILED"
WorkRequestStates == {"ACCEPTED", "IN_PROGRESS", WorkRequestSucceeded, WorkRequestFailed}

WorkRequestIDs == {"wr1"}
Messages == {"m1", "m2"}
LoadBalancerIDs == {"lb1", "lb2"}

WorkRequest(id, state, msg, lb) ==
    [ID |-> id, State |-> state, Message |-> msg, LoadBalancerID |-> lb]

\* what GetWorkRequest(id) may answer at one poll
WorkRequestsOf(id) ==
    {WorkRequest(id, s, "", "") : s \in {"ACCEPTED", "IN_PROGRESS"}}
    \cup {WorkRequest(id, WorkRequestSucceeded, "", lb) : lb \in LoadBalancerIDs}
    \cup {WorkRequest(id, WorkRequestFailed, m, "") : m \in Messages}

\* var backoff = wait.Backoff{Steps: 15, ...}
backoffSteps == 15

\* (mutant) a Failed work request is polled again like one in progress
ConditionFailedIgnored(id, answer, reqErr) ==
    IF reqErr # NilErr THEN <<FALSE, reqErr, <<>>>>
    ELSE LET twr == answer[1] IN
         CASE twr.State = WorkRequestSucceeded -> <<TRUE, NilErr, <<twr>>>>
           [] OTHER -> <<FALSE, NilErr, <<>>>>

\* (mutant) the assignment wr = twr is missing
ConditionNoResult(id, answer, reqErr) ==
    IF reqErr # NilErr THEN <<FALSE, reqErr, <<>>>>
    ELSE LET twr == answer[1] IN
         CASE twr.State = WorkRequestSucceeded -> <<TRUE, NilErr, <<>>>>
           [] twr.State = WorkRequestFailed ->
                  <<FALSE, Errorf("WorkRequest failed", <<id, twr.Message>>), <<>>>>
           [] OTHER -> <<FALSE, NilErr, <<>>>>

\* The condition function handed to wait.ExponentialBackoff: one poll.
\* answer is <<twr>> on success of GetWorkRequest, reqErr its error.
\* Yields <<done, err, wr>>.
Condition(id, answer, reqErr) ==
    IF reqErr # NilErr THEN <<FALSE, reqErr, <<>>>>
    ELSE LET twr == answer[1] IN
         CASE twr.State = WorkRequestSucceeded -> <<TRUE, NilErr, <<twr>>>>
           [] twr.State = WorkRequestFailed ->
                  <<FALSE, Errorf("WorkRequest failed", <<id, twr.Message>>), <<>>>>
           [] OTHER -> <<FALSE, NilErr, <<>>>>

\* (mutant) one attempt too many before giving up
ExponentialBackoffOffByOne(l, c) ==
    IF c[2] # NilErr \/ c[1]
    THEN Return(l, c[3], c[2])
    ELSE IF l.attempt > backoffSteps
         THEN Return(l, <<>>, ErrWaitTimeout)
         ELSE [l EXCEPT !.pc = "sleep"]

\* wait.ExponentialBackoff after one call of the condition, attempt being
\* the number of calls made so far: stop on done or error, stop with
\* ErrWaitTimeout when the steps are used up, sleep and call again otherwise.
ExponentialBackoff(l, c) ==
    IF c[2] # NilErr \/ c[1]
    THEN Return(l, c[3], c[2])
    ELSE IF l.attempt >= backoffSteps
         THEN Return(l, <<>>, ErrWaitTimeout)
         ELSE [l EXCEPT !.pc = "sleep"]

\* AwaitWorkRequest(id) is called: wr = nil, the first poll is due at once
AwaitWorkRequest(p, id) ==
    /\ th[p].pc = "idle"
    /\ th' = [th EXCEPT ![p] = [Idle EXCEPT !.pc = "poll", !.op = "AwaitWorkRequest",
                                            !.arg = id]]
    /\ UNCHANGED <<compartmentOCID, backend>>

\* one call of the condition: c.GetWorkRequest(id, opts) and the switch, the
\* work request answered being one of wrs
AwaitPollFrom(p, wrs) ==
    /\ th[p].pc = "poll"
    /\ \E out \in {<<<<w>>, NilErr>> : w \in wrs}
                  \cup {<<<<>>, e>> : e \in BackendErrors} :
         LET l1 == Log([th[p] EXCEPT !.attempt = @ + 1],
                       CallAns("GetWorkRequest", "", th[p].arg, 0, out[2] = NilErr,
                               IF out[2] = NilErr THEN out[1][1].State
                                                  ELSE out[2].detail[1]))
             l2 == [l1 EXCEPT !.resp = out[1]]
         IN th' = [th EXCEPT ![p] = ExponentialBackoff(l2, Condition(th[p].arg, out[1], out[2]))]
    /\ UNCHANGED <<compartmentOCID, backend>>

\* one call of the condition, the backend answering with any work request
AwaitPoll(p) == AwaitPollFrom(p, WorkRequestsOf(th[p].arg))

\* time.Sleep between two calls of the condition
AwaitSleep(p) ==
    /\ th[p].pc = "sleep"
    /\ th' = [th EXCEPT ![p] = [@ EXCEPT !.pc = "poll", !.slept = @ + 1]]
    /\ UNCHANGED <<compartmentOCID, backend>>

----------------------------------------------------------------------------
(* Strings the code inspects *)

Blank == <<>>                      \* ""
N1 == <<"n", "1">>                 \* "n1"
N10 == <<"n", "1", "0">>           \* "n10"
X9 == <<"x", "9">>                 \* "x9"
NodeNames == {Blank, N1, N10}

\* strings.HasPrefix(s, prefix)
HasPrefix(s, prefix) ==
    Len(s) >= Len(prefix) /\ SubSeq(s, 1, Len(prefix)) = prefix

----------------------------------------------------------------------------
(* The backend: resources and listings *)

ResourceRunning == "RUNNING"
ResourceAttached == "ATTACHED"
ResourceAvailable == "AVAILABLE"

Compartments == {"c1", "c2"}
InstanceIDs == {"i1", "i2", "i3", "i9"}
AttachmentIDs == {"a1", "a2", "a9"}
VnicIDs == {"v1", "v2", "v9"}

Instance(id, state) == [ID |-> id, State |-> state]
Attachment(id, state, vnic, inst) ==
    [ID |-> id, State |-> state, VnicID |-> vnic, InstanceID |-> inst]
Vnic(id, state, pub, priv, label, subnet) ==
    [ID |-> id, State |-> state, PublicIPAddress |-> pub, PrivateIPAddress |-> priv,
     HostnameLabel |-> label, SubnetID |-> subnet]

\* A listing is served as a chain of pages; page i is [items, next], next
\* being the cursor of the following page and 0 on the last page.
Chain(pages) ==
    [i \in 1..Len(pages) |->
        [items |-> pages[i], next |-> IF i < Len(pages) THEN i + 1 ELSE 0]]

\* the page a list call is answered with, given the cursor it carries
PageAt(chain, cursor) == chain[IF cursor = 0 THEN 1 ELSE cursor]

RECURSIVE Concat(_)
Concat(pages) == IF pages = <<>> THEN <<>> ELSE Head(pages) \o Concat(Tail(pages))

\* every way of serving the listing L in 1..MaxPages pages of at most
\* MaxPageLen items
Splits(L) ==
    LET parts == {SubSeq(L, i, j) : i \in 1..(Len(L) + 1), j \in 0..Len(L)}
    IN {ps \in UNION {[1..n -> parts] : n \in 1..MaxPages} :
            /\ Concat(ps) = L
            /\ \A i \in 1..Len(ps) : Len(ps[i]) <= MaxPageLen}

\* ListInstances(compartment, opts): items are the instances of the page
ListInstancesAnswer(comp, cursor) ==
    LET pg == PageAt(backend.instPages[comp], cursor)
    IN [items |-> [k \in 1..Len(pg.items) |-> backend.instances[pg.items[k]]],
        next |-> pg.next]

RECURSIVE SelectSeqBy(_, _, _)
\* the subsequence of the ids whose record in table has InstanceID = inst
SelectSeqBy(ids, table, inst) ==
    IF ids = <<>> THEN <<>>
    ELSE (IF table[Head(ids)].InstanceID = inst THEN <<Head(ids)>> ELSE <<>>)
         \o SelectSeqBy(Tail(ids), table, inst)

\* ListVnicAttachments(compartment, opts): the attachments of the page; with
\* opts.InstanceID set (inst # "") the server keeps those of that instance
ListVnicAttachmentsAnswer(comp, inst, cursor) ==
    LET pg == PageAt(backend.attPages[comp], cursor)
        ids == IF inst = "" THEN pg.items
               ELSE SelectSeqBy(pg.items, backend.attachments, inst)
    IN [items |-> [k \in 1..Len(ids) |-> backend.attachments[ids[k]]],
        next |-> pg.next]

\* the outcomes of one backend call: <<TRUE, NilErr>> or <<FALSE, error>>
Outcomes == {<<TRUE, NilErr>>} \cup {<<FALSE, e>> : e \in BackendErrors}

----------------------------------------------------------------------------
(* Pagination *)

\* SetNextPageOption(nextPage, &opts.Page): with a cursor, store it in the
\* options and report TRUE; without, leave the options alone and report FALSE.
\* Yields <<hasNextPage, opts.Page>>.
SetNextPageOption(nextPage, page) ==
    IF nextPage = 0 THEN <<FALSE, page>> ELSE <<TRUE, nextPage>>

\* (mutant) every item is kept, whatever its state
FilterStateAll(items, state) == items

RECURSIVE FilterState(_, _)
\* the items of a page that are in the given lifecycle state, in page order
FilterState(items, state) ==
    IF items = <<>> THEN <<>>
    ELSE (IF Head(items).State = state THEN <<Head(items)>> ELSE <<>>)
         \o FilterState(Tail(items), state)

\* index of the first attachment at or after from that is Attached, 0 if none
NextAttached(items, from) ==
    LET S == {k \in from..Len(items) : items[k].State = ResourceAttached}
    IN IF S = {} THEN 0 ELSE CHOOSE k \in S : \A j \in S : k <= j

----------------------------------------------------------------------------
(* Compartment *)

\* c.compartmentOCID = id
Compartment(id) ==
    /\ compartmentOCID' = id
    /\ UNCHANGED <<backend, th>>

----------------------------------------------------------------------------
(* GetInstanceByNodeName and findInstanceByNodeNameIsVnic *)

\* (mutant) no candidate is reported as a plain error, without the flag
findInstanceSwitchPlain(l) ==
    LET count == Len(l.acc) IN
    CASE count = 0 ->
             Return(l, <<>>, Errorf("could not find instance for node name", <<l.arg>>))
      [] count > 1 ->
             Return(l, <<>>, Errorf("expected one instance vnic ip/hostname", <<l.arg, count>>))
      [] OTHER -> Return(l, <<l.acc[1]>>, NilErr)

\* the switch on len(running) that ends findInstanceByNodeNameIsVnic
findInstanceSwitch(l) ==
    LET count == Len(l.acc) IN
    CASE count = 0 ->
             Return(l, <<>>, SearchError("could not find instance for node name", <<l.arg>>))
      [] count > 1 ->
             Return(l, <<>>, Errorf("expected one instance vnic ip/hostname", <<l.arg, count>>))
      [] OTHER -> Return(l, <<l.acc[1]>>, NilErr)

\* The loop of findInstanceByNodeNameIsVnic from attachment l.idx of the
\* page in hand up to its next backend call: skip the attachments that are
\* not Attached; at the end of the page take the cursor and list again, or
\* leave the loop when there is none.
findInstanceAdvance(l) ==
    LET k == NextAttached(l.resp, l.idx) IN
    IF k # 0 THEN [l EXCEPT !.pc = "ScanGetVnic", !.idx = k]
    ELSE LET sn == SetNextPageOption(l.next, l.page) IN
         IF sn[1] THEN [l EXCEPT !.pc = "ScanList", !.page = sn[2]]
         ELSE findInstanceSwitch(l)

\* entry of findInstanceByNodeNameIsVnic(nodeName): running = nil, fresh opts
findInstanceByNodeNameIsVnic(l) ==
    [l EXCEPT !.pc = "ScanList", !.acc = <<>>, !.page = 0, !.resp = <<>>,
              !.next = 0, !.idx = 0]

\* (mutant) of several Running instances the first is returned
GetInstanceSwitchFirst(l) ==
    LET count == Len(l.acc) IN
    CASE count = 0 -> findInstanceByNodeNameIsVnic(l)
      [] OTHER -> Return(l, <<l.acc[1]>>, NilErr)

\* the switch on len(running) that ends GetInstanceByNodeName
GetInstanceSwitch(l) ==
    LET count == Len(l.acc) IN
    CASE count = 0 -> findInstanceByNodeNameIsVnic(l)
      [] count > 1 ->
             Return(l, <<>>, Errorf("expected one instance with display name", <<l.arg, count>>))
      [] OTHER -> Return(l, <<l.acc[1]>>, NilErr)

\* GetInstanceByNodeName(nodeName) is called: the blank check, then opts with
\* DisplayName = nodeName and no cursor
GetInstanceByNodeName(p, nodeName) ==
    /\ th[p].pc = "idle"
    /\ LET l == [Idle EXCEPT !.op = "GetInstanceByNodeName", !.arg = nodeName] IN
       th' = [th EXCEPT ![p] =
                IF nodeName = Blank
                THEN Return(l, <<>>, Errorf("blank nodeName", <<>>))
                ELSE [l EXCEPT !.pc = "ListInstances"]]
    /\ UNCHANGED <<compartmentOCID, backend>>

\* (mutant) the slice running is a field of the client, shared by the
\* calls in flight
ListInstancesShared(p) ==
    /\ th[p].pc = "ListInstances"
    /\ \E out \in Outcomes :
         LET l == Log(th[p], Call("ListInstances", compartmentOCID, th[p].arg,
                                  th[p].page, out))
             r == ListInstancesAnswer(compartmentOCID, th[p].page)
             sn == SetNextPageOption(r.next, th[p].page)
             l2 == [l EXCEPT !.acc = @ \o FilterState(r.items, ResourceRunning),
                             !.page = sn[2]]
         IN th' = [q \in Procs |->
                     IF q = p
                     THEN (IF ~out[1] THEN Return(l, <<>>, out[2])
                           ELSE IF sn[1] THEN l2
                           ELSE GetInstanceSwitch(l2))
                     ELSE IF th[q].pc = "ListInstances" /\ out[1]
                          THEN [th[q] EXCEPT !.acc = l2.acc]
                          ELSE th[q]]
    /\ UNCHANGED <<compartmentOCID, backend>>

\* one round of the loop of GetInstanceByNodeName: c.ListInstances, keep the
\* Running instances, SetNextPageOption; after the last page the switch
ListInstances(p) ==
    /\ th[p].pc = "ListInstances"
    /\ \E out \in Outcomes :
         LET l == Log(th[p], Call("ListInstances", compartmentOCID, th[p].arg,
                                  th[p].page, out))
             r == ListInstancesAnswer(compartmentOCID, th[p].page)
             sn == SetNextPageOption(r.next, th[p].page)
             l2 == [l EXCEPT !.acc = @ \o FilterState(r.items, ResourceRunning),
                             !.page = sn[2]]
         IN th' = [th EXCEPT ![p] =
                     IF ~out[1] THEN Return(l, <<>>, out[2])
                     ELSE IF sn[1] THEN l2
                     ELSE GetInstanceSwitch(l2)]
    /\ UNCHANGED <<compartmentOCID, backend>>

\* c.ListVnicAttachments(c.compartmentOCID, opts) in findInstanceByNodeNameIsVnic
ScanList(p) ==
    /\ th[p].pc = "ScanList"
    /\ \E out \in Outcomes :
         LET l == Log(th[p], Call("ListVnicAttachments", compartmentOCID, "",
                                  th[p].page, out))
             r == ListVnicAttachmentsAnswer(compartmentOCID, "", th[p].page)
         IN th' = [th EXCEPT ![p] =
                     IF ~out[1] THEN Return(l, <<>>, out[2])
                     ELSE findInstanceAdvance([l EXCEPT !.resp = r.items, !.next = r.next,
                                                       !.idx = 1])]
    /\ UNCHANGED <<compartmentOCID, backend>>

\* (mutant) the label has to equal the node name
VnicMatchesExact(vnic, nodeName) ==
    \/ vnic.PublicIPAddress = nodeName
    \/ (vnic.HostnameLabel # Blank /\ nodeName = vnic.HostnameLabel)

\* the test of a vnic against the node name
VnicMatches(vnic, nodeName) ==
    \/ vnic.PublicIPAddress = nodeName
    \/ (vnic.HostnameLabel # Blank /\ HasPrefix(nodeName, vnic.HostnameLabel))

\* c.GetVnic(attachment.VnicID) for the Attached attachment in hand
ScanGetVnic(p) ==
    /\ th[p].pc = "ScanGetVnic"
    /\ \E out \in Outcomes :
         LET att == th[p].resp[th[p].idx]
             l == Log(th[p], Call("GetVnic", "", att.VnicID, 0, out))
             vnic == backend.vnics[att.VnicID]
         IN th' = [th EXCEPT ![p] =
                     IF ~out[1] THEN Return(l, <<>>, out[2])
                     ELSE IF VnicMatches(vnic, l.arg)
                     THEN [l EXCEPT !.pc = "ScanGetInstance"]
                     ELSE findInstanceAdvance([l EXCEPT !.idx = @ + 1])]
    /\ UNCHANGED <<compartmentOCID, backend>>

\* (mutant) an instance already among the candidates is not added again
ScanGetInstanceDistinct(p) ==
    /\ th[p].pc = "ScanGetInstance"
    /\ \E out \in Outcomes :
         LET att == th[p].resp[th[p].idx]
             l == Log(th[p], Call("GetInstance", "", att.InstanceID, 0, out))
             instance == backend.instances[att.InstanceID]
         IN th' = [th EXCEPT ![p] =
                     IF ~out[1] THEN Return(l, <<>>, out[2])
                     ELSE findInstanceAdvance(
                            [l EXCEPT !.idx = @ + 1,
                                      !.acc = IF /\ instance.State = ResourceRunning
                                                 /\ \A k \in 1..Len(l.acc) : l.acc[k] # instance
                                              THEN Append(@, instance) ELSE @])]
    /\ UNCHANGED <<compartmentOCID, backend>>

\* c.GetInstance(attachment.InstanceID) for the matching vnic's attachment
ScanGetInstance(p) ==
    /\ th[p].pc = "ScanGetInstance"
    /\ \E out \in Outcomes :
         LET att == th[p].resp[th[p].idx]
             l == Log(th[p], Call("GetInstance", "", att.InstanceID, 0, out))
             instance == backend.instances[att.InstanceID]
         IN th' = [th EXCEPT ![p] =
                     IF ~out[1] THEN Return(l, <<>>, out[2])
                     ELSE findInstanceAdvance(
                            [l EXCEPT !.idx = @ + 1,
                                      !.acc = IF instance.State = ResourceRunning
                                              THEN Append(@, instance) ELSE @])]
    /\ UNCHANGED <<compartmentOCID, backend>>

----------------------------------------------------------------------------
(* IP addresses as the backend serves them, and net.ParseIP / IP.String on *)
(* them: the IPv4-mapped IPv6 spelling parses to the same address as the   *)
(* dotted quad and prints as the dotted quad.                              *)

IP5 == <<"10.0.0.5">>
IP5Mapped == <<"::ffff:10.0.0.5">>
IP6 == <<"10.0.0.6">>
NotAnIP == <<"not-an-ip">>

\* net.ParseIP(s): <<address>>, or <<>> (nil) when s is not an IP address
ParseIP(s) ==
    CASE s \in {IP5, IP5Mapped} -> <<[v4 |-> <<10, 0, 0, 5>>]>>
      [] s = IP6 -> <<[v4 |-> <<10, 0, 0, 6>>]>>
      [] OTHER -> <<>>

\* ip.String()
IPString(ip) ==
    CASE ip.v4 = <<10, 0, 0, 5>> -> IP5
      [] ip.v4 = <<10, 0, 0, 6>> -> IP6

NodeAddress(type, address) == [Type |-> type, Address |-> address]

\* (mutant) an address that does not parse is dropped without an error
extractNodeAddressesDropInvalid(vnic) ==
    LET ip == ParseIP(vnic.PrivateIPAddress)
        pub == ParseIP(vnic.PublicIPAddress)
        internal == IF ip # <<>>
                    THEN <<NodeAddress("InternalIP", IPString(ip[1]))>> ELSE <<>>
    IN IF pub # <<>>
       THEN <<Append(internal, NodeAddress("ExternalIP", IPString(pub[1]))), NilErr>>
       ELSE <<internal, NilErr>>

\* extractNodeAddressesFromVnic(vnic): <<addresses, err>>
extractNodeAddressesFromVnic(vnic) ==
    LET ip == ParseIP(vnic.PrivateIPAddress)
        pub == ParseIP(vnic.PublicIPAddress)
        internal == IF vnic.PrivateIPAddress # Blank /\ ip # <<>>
                    THEN <<NodeAddress("InternalIP", IPString(ip[1]))>> ELSE <<>>
    IN IF vnic.PrivateIPAddress # Blank /\ ip = <<>>
       THEN <<<<>>, Errorf("instance has invalid private address", <<vnic.PrivateIPAddress>>)>>
       ELSE IF vnic.PublicIPAddress # Blank /\ pub = <<>>
       THEN <<<<>>, Errorf("instance has invalid public address", <<vnic.PublicIPAddress>>)>>
       ELSE IF vnic.PublicIPAddress # Blank
       THEN <<Append(internal, NodeAddress("ExternalIP", IPString(pub[1]))), NilErr>>
       ELSE <<internal, NilErr>>

RECURSIVE ExtractAll(_, _)
\* the loop of GetNodeAddressesForInstance over the vnics: <<addresses, err>>
ExtractAll(vnics, addresses) ==
    IF vnics = <<>> THEN <<addresses, NilErr>>
    ELSE LET a == extractNodeAddressesFromVnic(Head(vnics)) IN
         IF a[2] # NilErr THEN <<<<>>, a[2]>>
         ELSE ExtractAll(Tail(vnics), addresses \o a[1])

----------------------------------------------------------------------------
(* GetAttachedVnicsForInstance and GetNodeAddressesForInstance *)

\* return vnics, nil; in GetNodeAddressesForInstance the addresses of the
\* vnics are extracted from them next
AttachedVnicsReturn(l) ==
    IF l.op = "GetNodeAddressesForInstance"
    THEN LET a == ExtractAll(l.acc, <<>>) IN Return(l, a[1], a[2])
    ELSE Return(l, l.acc, NilErr)

\* the loop of GetAttachedVnicsForInstance from attachment l.idx of the page
\* in hand up to its next backend call
AttachedVnicsAdvance(l) ==
    LET k == NextAttached(l.resp, l.idx) IN
    IF k # 0 THEN [l EXCEPT !.pc = "VnicsGetVnic", !.idx = k]
    ELSE LET sn == SetNextPageOption(l.next, l.page) IN
         IF sn[1] THEN [l EXCEPT !.pc = "VnicsList", !.page = sn[2]]
         ELSE AttachedVnicsReturn(l)

\* (mutant) the blank check is missing
GetAttachedVnicsForInstanceNoCheck(p, id) ==
    /\ th[p].pc = "idle"
    /\ th' = [th EXCEPT ![p] = [Idle EXCEPT !.op = "GetAttachedVnicsForInstance",
                                            !.arg = id, !.pc = "VnicsList"]]
    /\ UNCHANGED <<compartmentOCID, backend>>

\* GetAttachedVnicsForInstance(id) is called: the blank check, then opts with
\* InstanceID = id and no cursor
GetAttachedVnicsForInstance(p, id) ==
    /\ th[p].pc = "idle"
    /\ LET l == [Idle EXCEPT !.op = "GetAttachedVnicsForInstance", !.arg = id] IN
       th' = [th EXCEPT ![p] =
                IF id = ""
                THEN Return(l, <<>>, Errorf("blank instance id", <<>>))
                ELSE [l EXCEPT !.pc = "VnicsList"]]
    /\ UNCHANGED <<compartmentOCID, backend>>

\* GetNodeAddressesForInstance(id) is called: the blank check, then the call
\* of GetAttachedVnicsForInstance(id)
GetNodeAddressesForInstance(p, id) ==
    /\ th[p].pc = "idle"
    /\ LET l == [Idle EXCEPT !.op = "GetNodeAddressesForInstance", !.arg = id] IN
       th' = [th EXCEPT ![p] =
                IF id = ""
                THEN Return(l, <<>>, Errorf("blank id", <<>>))
                ELSE [l EXCEPT !.pc = "VnicsList"]]
    /\ UNCHANGED <<compartmentOCID, backend>>

\* c.ListVnicAttachments(c.compartmentOCID, opts) in GetAttachedVnicsForInstance
VnicsList(p) ==
    /\ th[p].pc = "VnicsList"
    /\ \E out \in Outcomes :
         LET l == Log(th[p], Call("ListVnicAttachments", compartmentOCID, th[p].arg,
                                  th[p].page, out))
             r == ListVnicAttachmentsAnswer(compartmentOCID, th[p].arg, th[p].page)
         IN th' = [th EXCEPT ![p] =
                     IF ~out[1] THEN Return(l, <<>>, out[2])
                     ELSE AttachedVnicsAdvance([l EXCEPT !.resp = r.items, !.next = r.next,
                                                        !.idx = 1])]
    /\ UNCHANGED <<compartmentOCID, backend>>

\* (mutant) on a failed GetVnic the vnics gathered so far are returned
VnicsGetVnicPartial(p) ==
    /\ th[p].pc = "VnicsGetVnic"
    /\ \E out \in Outcomes :
         LET att == th[p].resp[th[p].idx]
             l == Log(th[p], Call("GetVnic", "", att.VnicID, 0, out))
             v == backend.vnics[att.VnicID]
         IN th' = [th EXCEPT ![p] =
                     IF ~out[1] THEN Return(l, l.acc, out[2])
                     ELSE AttachedVnicsAdvance(
                            [l EXCEPT !.idx = @ + 1,
                                      !.acc = IF v.State = ResourceAvailable
                                              THEN Append(@, v) ELSE @])]
    /\ UNCHANGED <<compartmentOCID, backend>>

\* c.GetVnic(att.VnicID) in GetAttachedVnicsForInstance; keep it if Available
VnicsGetVnic(p) ==
    /\ th[p].pc = "VnicsGetVnic"
    /\ \E out \in Outcomes :
         LET att == th[p].resp[th[p].idx]
             l == Log(th[p], Call("GetVnic", "", att.VnicID, 0, out))
             v == backend.vnics[att.VnicID]
         IN th' = [th EXCEPT ![p] =
                     IF ~out[1] THEN Return(l, <<>>, out[2])
                     ELSE AttachedVnicsAdvance(
                            [l EXCEPT !.idx = @ + 1,
                                      !.acc = IF v.State = ResourceAvailable
                                              THEN Append(@, v) ELSE @])]
    /\ UNCHANGED <<compartmentOCID, backend>>

----------------------------------------------------------------------------
(* GetSubnetsForInternalIPs *)

SubnetIDs == {"s1", "s2"}
Subnet(id) == [ID |-> id]

\* the cursor the list call of GetSubnetsForInternalIPs carries: the call
\* passes nil for the options, never the opts the cursor is stored in
SubnetsListCursor(page) == 0

\* the loop of GetSubnetsForInternalIPs from attachment l.idx of the page in
\* hand up to its next backend call
SubnetsAdvance(l) ==
    LET k == NextAttached(l.resp, l.idx) IN
    IF k # 0 THEN [l EXCEPT !.pc = "SubnetsGetVnic", !.idx = k]
    ELSE LET sn == SetNextPageOption(l.next, l.page) IN
         IF sn[1] THEN [l EXCEPT !.pc = "SubnetsList", !.page = sn[2]]
         ELSE Return(l, l.acc, NilErr)

\* GetSubnetsForInternalIPs(ips) is called: ipSet, empty subnetOCIDs
GetSubnetsForInternalIPs(p, ips) ==
    /\ th[p].pc = "idle"
    /\ th' = [th EXCEPT ![p] = [Idle EXCEPT !.op = "GetSubnetsForInternalIPs",
                                            !.arg = ips, !.pc = "SubnetsList"]]
    /\ UNCHANGED <<compartmentOCID, backend>>

\* c.ListVnicAttachments(c.compartmentOCID, nil); the log is capped
SubnetsList(p) ==
    /\ th[p].pc = "SubnetsList"
    /\ Len(th[p].calls) < MaxCalls
    /\ \E out \in Outcomes :
         LET cursor == SubnetsListCursor(th[p].page)
             l == Log(th[p], Call("ListVnicAttachments", compartmentOCID, "",
                                  cursor, out))
             r == ListVnicAttachmentsAnswer(compartmentOCID, "", cursor)
         IN th' = [th EXCEPT ![p] =
                     IF ~out[1] THEN Return(l, <<>>, out[2])
                     ELSE SubnetsAdvance([l EXCEPT !.resp = r.items, !.next = r.next,
                                                  !.idx = 1])]
    /\ UNCHANGED <<compartmentOCID, backend>>

\* (mutant) the test of subnetOCIDs is missing
SubnetsGetVnicNoDedup(p) ==
    /\ th[p].pc = "SubnetsGetVnic"
    /\ \E out \in Outcomes :
         LET att == th[p].resp[th[p].idx]
             l == Log(th[p], Call("GetVnic", "", att.VnicID, 0, out))
             vnic == backend.vnics[att.VnicID]
         IN th' = [th EXCEPT ![p] =
                     IF ~out[1] THEN Return(l, <<>>, out[2])
                     ELSE IF /\ vnic.PrivateIPAddress # Blank
                             /\ vnic.PrivateIPAddress \in l.arg
                     THEN [l EXCEPT !.pc = "SubnetsGetSubnet", !.cur = <<vnic>>]
                     ELSE SubnetsAdvance([l EXCEPT !.idx = @ + 1])]
    /\ UNCHANGED <<compartmentOCID, backend>>

\* c.GetVnic(attachment.VnicID) in GetSubnetsForInternalIPs
SubnetsGetVnic(p) ==
    /\ th[p].pc = "SubnetsGetVnic"
    /\ \E out \in Outcomes :
         LET att == th[p].resp[th[p].idx]
             l == Log(th[p], Call("GetVnic", "", att.VnicID, 0, out))
             vnic == backend.vnics[att.VnicID]
         IN th' = [th EXCEPT ![p] =
                     IF ~out[1] THEN Return(l, <<>>, out[2])
                     ELSE IF /\ vnic.PrivateIPAddress # Blank
                             /\ vnic.PrivateIPAddress \in l.arg
                             /\ vnic.SubnetID \notin l.seen
                     THEN [l EXCEPT !.pc = "SubnetsGetSubnet", !.cur = <<vnic>>]
                     ELSE SubnetsAdvance([l EXCEPT !.idx = @ + 1])]
    /\ UNCHANGED <<compartmentOCID, backend>>

\* c.GetSubnet(vnic.SubnetID); append the subnet, remember its id
SubnetsGetSubnet(p) ==
    /\ th[p].pc = "SubnetsGetSubnet"
    /\ \E out \in Outcomes :
         LET vnic == th[p].cur[1]
             l == Log(th[p], Call("GetSubnet", "", vnic.SubnetID, 0, out))
             subnet == backend.subnets[vnic.SubnetID]
         IN th' = [th EXCEPT ![p] =
                     IF ~out[1] THEN Return(l, <<>>, out[2])
                     ELSE SubnetsAdvance([l EXCEPT !.idx = @ + 1,
                                                  !.acc = Append(@, subnet),
                                                  !.seen = @ \cup {vnic.SubnetID}])]
    /\ UNCHANGED <<compartmentOCID, backend>>

----------------------------------------------------------------------------
(* What the backend holds.  Compartment c1 is the one that varies; c2 and  *)
(* the compartment "" of a client whose Compartment was never called hold  *)
(* fixed data.                                                             *)

C1Instances == <<"i1", "i2", "i3">>
C1Attachments == <<"a1", "a2">>
States == {ResourceRunning, "TERMINATED"}
AttachmentStates == {ResourceAttached, "DETACHED"}
VnicStates == {ResourceAvailable, "TERMINATING"}

VnicOf(a) == CASE a = "a1" -> "v1" [] a = "a2" -> "v2" [] a = "a9" -> "v9"

DefaultInstances ==
    [i \in InstanceIDs |-> Instance(i, IF i = "i9" THEN ResourceRunning ELSE "TERMINATED")]
DefaultAttachments ==
    [a \in AttachmentIDs |->
        Attachment(a, ResourceAttached, VnicOf(a),
                   CASE a = "a1" -> "i1" [] a = "a2" -> "i2" [] a = "a9" -> "i9")]
DefaultVnics ==
    [v \in VnicIDs |->
        CASE v = "v1" -> Vnic(v, ResourceAvailable, Blank, IP5, N1, "s1")
          [] v = "v2" -> Vnic(v, ResourceAvailable, Blank, IP6, Blank, "s2")
          [] v = "v9" -> Vnic(v, ResourceAvailable, Blank, IP6, X9, "s2")]

\* f with the entries of g
Override(f, g) == [x \in DOMAIN f |-> IF x \in DOMAIN g THEN g[x] ELSE f[x]]

Backend(instPages, attPages, instances, attachments, vnics) ==
    [instPages |-> [c \in Compartments \cup {""} |->
                      CASE c = "c1" -> Chain(instPages)
                        [] c = "c2" -> Chain(<< <<"i9">> >>)
                        [] OTHER -> Chain(<< <<>> >>)],
     attPages |-> [c \in Compartments \cup {""} |->
                      CASE c = "c1" -> Chain(attPages)
                        [] c = "c2" -> Chain(<< <<"a9">> >>)
                        [] OTHER -> Chain(<< <<>> >>)],
     instances |-> Override(DefaultInstances, instances),
     attachments |-> Override(DefaultAttachments, attachments),
     vnics |-> Override(DefaultVnics, vnics),
     subnets |-> [x \in SubnetIDs |-> Subnet(x)]]

\* the attachments a1, a2 with the given states, a2 on the given instance
Attachments(state, a2inst) ==
    [a \in {"a1", "a2"} |->
        Attachment(a, state[a], VnicOf(a), IF a = "a1" THEN "i1" ELSE a2inst)]

\* display-name listings of up to three instances in every state, every
\* paging of them; one attachment whose vnic label is "n1"
InitDisplay ==
    \E n \in 0..3, st \in [{"i1", "i2", "i3"} -> States] :
    \E ps \in Splits(SubSeq(C1Instances, 1, n)) :
        backend = Backend(ps, << <<"a1">> >>,
                          [i \in {"i1", "i2", "i3"} |-> Instance(i, st[i])],
                          <<>>, <<>>)

\* public IP and hostname label of a vnic in the scan worlds
ScanKinds == {<<Blank, Blank>>, <<Blank, N1>>, <<Blank, N10>>, <<N10, Blank>>}

\* a display-name listing without a Running instance; up to two attachments
\* in every state, paging and ownership, their vnics of every kind
InitScan ==
    \E n \in 0..2, st \in [{"i1", "i2"} -> States],
       as \in [{"a1", "a2"} -> AttachmentStates], a2inst \in {"i1", "i2"},
       kind \in [{"v1", "v2"} -> ScanKinds] :
    \E ps \in Splits(SubSeq(C1Attachments, 1, n)) :
        /\ \A k \in (n + 1)..2 :
              /\ as[C1Attachments[k]] = ResourceAttached
              /\ kind[VnicOf(C1Attachments[k])] = <<Blank, Blank>>
        /\ n < 2 => a2inst = "i2"
        /\ backend = Backend(<< <<"i3">> >>, ps,
                             [i \in {"i1", "i2"} |-> Instance(i, st[i])],
                             Attachments(as, a2inst),
                             [v \in {"v1", "v2"} |->
                                 Vnic(v, ResourceAvailable, kind[v][1],
                                      IF v = "v1" THEN IP5 ELSE IP6, kind[v][2], "s1")])

\* two attachments in every state, paging and ownership, their vnics in
\* every state
InitVnics ==
    \E n \in 1..2, as \in [{"a1", "a2"} -> AttachmentStates], a2inst \in {"i1", "i2"},
       vs \in [{"v1", "v2"} -> VnicStates] :
    \E ps \in Splits(SubSeq(C1Attachments, 1, n)) :
        /\ \A k \in (n + 1)..2 :
              /\ as[C1Attachments[k]] = ResourceAttached
              /\ vs[VnicOf(C1Attachments[k])] = ResourceAvailable
        /\ n < 2 => a2inst = "i2"
        /\ backend = Backend(<< <<>> >>, ps, <<>>, Attachments(as, a2inst),
                             [v \in {"v1", "v2"} |->
                                 Vnic(v, vs[v], Blank, IF v = "v1" THEN IP5 ELSE IP6,
                                      Blank, IF v = "v1" THEN "s1" ELSE "s2")])

PrivateIPs == {Blank, IP5Mapped, NotAnIP}
PublicIPs == {Blank, IP6, NotAnIP}

\* two Attached attachments of instance i1 on one page or two, their vnics
\* with every private and public IP
InitAddresses ==
    \E vs2 \in VnicStates, priv \in [{"v1", "v2"} -> PrivateIPs],
       pub \in [{"v1", "v2"} -> PublicIPs] :
    \E ps \in {<< <<"a1", "a2">> >>, << <<"a1">>, <<"a2">> >>} :
        backend = Backend(<< <<>> >>, ps, <<>>,
                          Attachments([a \in {"a1", "a2"} |-> ResourceAttached], "i1"),
                          [v \in {"v1", "v2"} |->
                              Vnic(v, IF v = "v1" THEN ResourceAvailable ELSE vs2,
                                   pub[v], priv[v], Blank, "s1")])

\* two attachments in every state and paging, their vnics with every
\* private IP, in one subnet or two
InitSubnets ==
    \E as \in [{"a1", "a2"} -> AttachmentStates], vs2 \in VnicStates,
       priv \in [{"v1", "v2"} -> {Blank, IP5, IP6}], s2 \in SubnetIDs :
    \E ps \in Splits(C1Attachments) :
        backend = Backend(<< <<>> >>, ps, <<>>, Attachments(as, "i2"),
                          [v \in {"v1", "v2"} |->
                              Vnic(v, IF v = "v1" THEN ResourceAvailable ELSE vs2,
                                   Blank, priv[v], Blank,
                                   IF v = "v1" THEN "s1" ELSE s2)])

\* New(cfg): &client{Client: bmcsClient}, the compartment not yet set
Init ==
    /\ compartmentOCID = ""
    /\ th = [p \in Procs |-> Idle]
    /\ \/ InitDisplay
       \/ InitScan
       \/ InitVnics
       \/ InitAddresses
       \/ InitSubnets

\* Compartment("c1") as the configuration step of a fresh client, before any
\* operation is issued
Configure(p) ==
    /\ th[p].pc = "idle"
    /\ compartmentOCID = ""
    /\ Compartment("c1")

\* arguments of the calls
InstanceArgs == {"", "i1"}
IPArgs == {{}, {IP5}, {IP5, IP6}}

\* One caller: the compartment is set while no operation is in flight, then
\* one operation runs to its return.
Next ==
    \/ Configure(1)
    \/ \E name \in NodeNames : GetInstanceByNodeName(1, name)
    \/ ListInstances(1)
    \/ ScanList(1)
    \/ ScanGetVnic(1)
    \/ ScanGetInstance(1)
    \/ \E id \in InstanceArgs : GetAttachedVnicsForInstance(1, id)
    \/ \E id \in InstanceArgs : GetNodeAddressesForInstance(1, id)
    \/ VnicsList(1)
    \/ VnicsGetVnic(1)
    \/ \E ips \in IPArgs : GetSubnetsForInternalIPs(1, ips)
    \/ SubnetsList(1)
    \/ SubnetsGetVnic(1)
    \/ SubnetsGetSubnet(1)

Spec == Init /\ [][Next]_vars

InitAwait ==
    /\ compartmentOCID = ""
    /\ backend = Backend(<< <<>> >>, << <<>> >>, <<>>, <<>>, <<>>)
    /\ th = [p \in Procs |-> Idle]

NextAwait ==
    \/ \E id \in WorkRequestIDs : AwaitWorkRequest(1, id)
    \/ AwaitPoll(1)
    \/ AwaitSleep(1)

SpecAwait == InitAwait /\ [][NextAwait]_vars

----------------------------------------------------------------------------
(* Claims about AwaitWorkRequest, checked under SpecAwait *)

Polls(p) == th[p].calls

\* the k-th poll had an error outcome: the call failed, or it saw Failed
ErrorOutcome(c) == ~c.ok \/ c.ans = WorkRequestFailed

\* the k-th poll saw a state that is neither Succeeded nor Failed
NonTerminal(c) == c.ok /\ c.ans \notin {WorkRequestSucceeded, WorkRequestFailed}

\* C1: a poll with an error outcome is the last one.  Whenever the log of an
\* AwaitWorkRequest holds a poll that failed or that saw Failed, that poll is
\* the last of the log, the operation has returned, no sleep followed it, and
\* the error is the backend's error unchanged (failed call) or the error that
\* carries the id and the failure message of the work request (Failed).
C1_NoPollAfterError ==
    \A p \in Procs : \A k \in 1..Len(Polls(p)) :
        (th[p].op = "AwaitWorkRequest" /\ ErrorOutcome(Polls(p)[k])) =>
            /\ k = Len(Polls(p))
            /\ th[p].pc = "done"
            /\ th[p].slept = k - 1
            /\ th[p].result = <<>>
            /\ th[p].err = IF ~Polls(p)[k].ok
                           THEN BackendError(Polls(p)[k].ans)
                           ELSE Errorf("WorkRequest failed",
                                       <<th[p].arg, th[p].resp[1].Message>>)

\* an error outcome at the third poll, twelve attempts left
C1_Witness ==
    /\ th[1].op = "AwaitWorkRequest" /\ th[1].pc = "done"
    /\ Len(Polls(1)) = 3 /\ Polls(1)[3].ans = WorkRequestFailed
    /\ th[1].resp[1].Message = "m2"

\* C2: for every k in 1..15, when the first k-1 polls saw a non-terminal
\* state and the k-th saw Succeeded, the operation has returned after exactly
\* k GetWorkRequest calls, with the work request of the k-th poll and nil.
C2_SucceedsAtKthPoll ==
    \A p \in Procs : \A k \in 1..15 :
        (/\ th[p].op = "AwaitWorkRequest"
         /\ Len(Polls(p)) >= k
         /\ \A j \in 1..(k - 1) : NonTerminal(Polls(p)[j])
         /\ Polls(p)[k].ok /\ Polls(p)[k].ans = WorkRequestSucceeded) =>
            /\ Len(Polls(p)) = k
            /\ \A j \in 1..k : Polls(p)[j].fn = "GetWorkRequest"
            /\ th[p].pc = "done"
            /\ th[p].err = NilErr
            /\ th[p].result = th[p].resp
            /\ th[p].result[1].State = WorkRequestSucceeded

\* success at the last attempt of the budget
C2_Witness ==
    /\ th[1].op = "AwaitWorkRequest" /\ th[1].pc = "done"
    /\ Len(Polls(1)) = 15 /\ Polls(1)[15].ans = WorkRequestSucceeded
    /\ th[1].result # <<>> /\ th[1].result[1].LoadBalancerID = "lb2"

----------------------------------------------------------------------------
(* What the compartment of the client holds, independent of how it is      *)
(* paged: the reference the results of the operations are compared with.   *)

\* the items of all pages of a chain, in page order
Listed(chain) == Concat([i \in 1..Len(chain) |-> chain[i].items])

\* the instances of the display-name listing
DisplayListing ==
    LET ids == Listed(backend.instPages[compartmentOCID])
    IN [k \in 1..Len(ids) |-> backend.instances[ids[k]]]

\* the Running ones among them
RunningListed ==
    LET IsRunning(i) == i.State = ResourceRunning IN SelectSeq(DisplayListing, IsRunning)

\* the attachments of the compartment
AttachmentListing ==
    LET ids == Listed(backend.attPages[compartmentOCID])
    IN [k \in 1..Len(ids) |-> backend.attachments[ids[k]]]

\* positions of the Attached attachments whose vnic satisfies P
AttachedWhere(P(_)) ==
    {k \in 1..Len(AttachmentListing) :
        /\ AttachmentListing[k].State = ResourceAttached
        /\ P(backend.vnics[AttachmentListing[k].VnicID])}

OwnerOf(k) == backend.instances[AttachmentListing[k].InstanceID]

\* positions of the candidates of the vnic scan for the node name: Attached,
\* the vnic matching by public IP or by label, the instance Running
ScanCandidates(nodeName) ==
    LET Match(v) == \/ v.PublicIPAddress = nodeName
                    \/ (v.HostnameLabel # Blank /\ HasPrefix(nodeName, v.HostnameLabel))
    IN {k \in AttachedWhere(Match) : OwnerOf(k).State = ResourceRunning}

\* the calls of the vnic-scan stage
ScanCalls(p) ==
    CallsTo(th[p].calls, "ListVnicAttachments") \cup CallsTo(th[p].calls, "GetVnic")
    \cup CallsTo(th[p].calls, "GetInstance")

AllOK(p) == \A k \in 1..Len(th[p].calls) : th[p].calls[k].ok

Resolving(p) == th[p].op = "GetInstanceByNodeName" /\ th[p].arg # Blank

\* the operation returned and none of its backend calls failed
Returned(p) == th[p].pc = "done" /\ AllOK(p)

----------------------------------------------------------------------------
(* Claims about GetInstanceByNodeName, checked under Spec *)

\* C4: when the display-name listing of a non-empty node name holds exactly
\* one Running instance, GetInstanceByNodeName issues no ListVnicAttachments,
\* GetVnic or GetInstance call, and, the listing delivered (no call failed),
\* it returns that instance and nil.
C4_SingleRunningNoScan ==
    \A p \in Procs : (Resolving(p) /\ Len(RunningListed) = 1) =>
        /\ ScanCalls(p) = {}
        /\ Returned(p) => (th[p].result = <<RunningListed[1]>> /\ th[p].err = NilErr)

\* the Running instance is on the second page, after one that is not Running
C4_Witness ==
    /\ Resolving(1) /\ Returned(1)
    /\ Len(RunningListed) = 1 /\ Len(DisplayListing) >= 2
    /\ DisplayListing[1].State # ResourceRunning
    /\ Cardinality(CallsTo(th[1].calls, "ListInstances")) = 2
    /\ th[1].result = <<RunningListed[1]>>

\* C5: when the display-name listing holds two or more Running instances,
\* GetInstanceByNodeName issues no call of the vnic scan and, the listing
\* delivered, fails with the ambiguity error, which counts the Running
\* instances only and has no NotFound flag; that error is returned in no
\* other case.
C5_AmbiguousDisplayName ==
    \A p \in Procs : Resolving(p) =>
        /\ Len(RunningListed) >= 2 =>
              /\ ScanCalls(p) = {}
              /\ Returned(p) =>
                    /\ th[p].result = <<>>
                    /\ th[p].err = Errorf("expected one instance with display name",
                                          <<th[p].arg, Len(RunningListed)>>)
                    /\ ~th[p].err.NotFound
        /\ th[p].err.kind = "expected one instance with display name" =>
              Len(RunningListed) >= 2

\* two Running instances and one that is not, on two pages
C5_Witness ==
    /\ Resolving(1) /\ Returned(1)
    /\ Len(DisplayListing) = 3 /\ Len(RunningListed) = 2
    /\ Cardinality(CallsTo(th[1].calls, "ListInstances")) = 2
    /\ th[1].err.kind = "expected one instance with display name"

\* positions of the Attached attachments whose vnic has a non-empty hostname
\* label that is a prefix of the node name
LabelMatches(nodeName) ==
    LET ByLabel(v) == v.HostnameLabel # Blank /\ HasPrefix(nodeName, v.HostnameLabel)
    IN AttachedWhere(ByLabel)

OtherPublicIPCandidates(nodeName, k) ==
    LET ByIP(v) == v.PublicIPAddress = nodeName
    IN {j \in AttachedWhere(ByIP) : j # k /\ OwnerOf(j).State = ResourceRunning}

C7_NotFoundFlag ==
    \A p \in Procs : (th[p].op = "GetInstanceByNodeName" /\ th[p].pc = "done") =>
        /\ th[p].err.NotFound <=>
              /\ th[p].arg # Blank
              /\ AllOK(p)
              /\ Len(RunningListed) = 0
              /\ ScanCandidates(th[p].arg) = {}
        /\ th[p].err.NotFound =>
              /\ th[p].err = SearchError("could not find instance for node name",
                                         <<th[p].arg>>)
              /\ th[p].result = <<>>

\* nothing Running at the display-name stage, and the only matching vnic of
\* the scan belongs to an instance that is not Running
C7_Witness ==
    /\ Resolving(1) /\ Returned(1) /\ th[1].err.NotFound
    /\ Len(DisplayListing) >= 1
    /\ CallsTo(th[1].calls, "GetInstance") # {}
    /\ Cardinality(CallsTo(th[1].calls, "ListVnicAttachments")) = 2

\* C8: GetInstanceByNodeName with an empty node name, GetNodeAddressesForInstance
\* and GetAttachedVnicsForInstance with an empty instance id have returned
\* their blank-argument error and a nil result without any backend call.
C8_BlankArgumentNoCalls ==
    \A p \in Procs :
        /\ (th[p].op = "GetInstanceByNodeName" /\ th[p].arg = Blank) =>
              /\ th[p].pc = "done" /\ th[p].calls = <<>> /\ th[p].result = <<>>
              /\ th[p].err = Errorf("blank nodeName", <<>>)
        /\ (th[p].op = "GetNodeAddressesForInstance" /\ th[p].arg = "") =>
              /\ th[p].pc = "done" /\ th[p].calls = <<>> /\ th[p].result = <<>>
              /\ th[p].err = Errorf("blank id", <<>>)
        /\ (th[p].op = "GetAttachedVnicsForInstance" /\ th[p].arg = "") =>
              /\ th[p].pc = "done" /\ th[p].calls = <<>> /\ th[p].result = <<>>
              /\ th[p].err = Errorf("blank instance id", <<>>)

\* the blank node name is rejected in a compartment that has a Running
\* instance to list
C8_Witness ==
    /\ th[1].op = "GetInstanceByNodeName" /\ th[1].arg = Blank /\ th[1].pc = "done"
    /\ compartmentOCID = "c1" /\ Len(RunningListed) = 1
    /\ th[1].err # NilErr
----------------------------------------------------------------------------
(* Claims about pagination, checked under Spec *)

\* the calls of the log to fn, in order
RECURSIVE CallSeq(_, _)
CallSeq(log, fn) ==
    IF log = <<>> THEN <<>>
    ELSE (IF Head(log).fn = fn THEN <<Head(log)>> ELSE <<>>) \o CallSeq(Tail(log), fn)

\* the list calls L follow the chain: no more calls than pages, the first
\* without a cursor, the i-th with the cursor page i-1 was served with
FollowsChain(L, chain) ==
    /\ Len(L) <= Len(chain)
    /\ \A i \in 1..Len(L) : L[i].page = IF i = 1 THEN 0 ELSE chain[i - 1].next

\* the Available vnics of the Attached attachments of instance id, in
\* listing order
ExpectedVnics(id) ==
    LET Live(a) == /\ a.InstanceID = id
                   /\ a.State = ResourceAttached
                   /\ backend.vnics[a.VnicID].State = ResourceAvailable
        atts == SelectSeq(AttachmentListing, Live)
    IN [k \in 1..Len(atts) |-> backend.vnics[atts[k].VnicID]]

RECURSIVE SubnetsFrom(_, _, _)
\* the subnets of the Attached vnics with a private IP among ips, each once,
\* in the order they are first met
SubnetsFrom(atts, ips, seen) ==
    IF atts = <<>> THEN <<>>
    ELSE LET a == Head(atts)
             v == backend.vnics[a.VnicID]
             hit == /\ a.State = ResourceAttached
                    /\ v.PrivateIPAddress # Blank /\ v.PrivateIPAddress \in ips
                    /\ v.SubnetID \notin seen
         IN IF hit
            THEN <<backend.subnets[v.SubnetID]>>
                 \o SubnetsFrom(Tail(atts), ips, seen \cup {v.SubnetID})
            ELSE SubnetsFrom(Tail(atts), ips, seen)

ExpectedSubnets(ips) == SubnetsFrom(AttachmentListing, ips, {})

\* The pager invariant for the operations in ops: the list calls of each
\* stage follow the chain of its listing; once the operation has returned
\* without a failed call, each stage it ran made one list call per page and
\* the result is the one the concatenation of the pages' filtered items gives.
PagerInvariantOf(ops) ==
    \A p \in Procs : th[p].op \in ops =>
        LET instCalls == CallSeq(th[p].calls, "ListInstances")
            attCalls == CallSeq(th[p].calls, "ListVnicAttachments")
            instChain == backend.instPages[compartmentOCID]
            attChain == backend.attPages[compartmentOCID]
        IN /\ FollowsChain(instCalls, instChain)
           /\ FollowsChain(attCalls, attChain)
           /\ (Returned(p) /\ th[p].op = "GetInstanceByNodeName" /\ th[p].arg # Blank) =>
                 /\ Len(instCalls) = Len(instChain)
                 /\ Len(attCalls) = IF Len(RunningListed) = 0 THEN Len(attChain) ELSE 0
                 /\ Len(RunningListed) = 1 => th[p].result = <<RunningListed[1]>>
                 /\ (Len(RunningListed) = 0 /\ Cardinality(ScanCandidates(th[p].arg)) = 1) =>
                       \A k \in ScanCandidates(th[p].arg) : th[p].result = <<OwnerOf(k)>>
           /\ (Returned(p) /\ th[p].op = "GetAttachedVnicsForInstance" /\ th[p].arg # "") =>
                 /\ Len(attCalls) = Len(attChain)
                 /\ th[p].result = ExpectedVnics(th[p].arg)
           /\ (Returned(p) /\ th[p].op = "GetNodeAddressesForInstance" /\ th[p].arg # "") =>
                 Len(attCalls) = Len(attChain)
           /\ (Returned(p) /\ th[p].op = "GetSubnetsForInternalIPs") =>
                 /\ Len(attCalls) = Len(attChain)
                 /\ th[p].result = ExpectedSubnets(th[p].arg)

\* C9: the pager invariant holds of every paginated operation: the
\* display-name listing and the vnic scan of GetInstanceByNodeName,
\* GetAttachedVnicsForInstance (also under GetNodeAddressesForInstance) and
\* GetSubnetsForInternalIPs.
C9_PagerInvariant ==
    PagerInvariantOf({"GetInstanceByNodeName", "GetAttachedVnicsForInstance",
                      "GetNodeAddressesForInstance", "GetSubnetsForInternalIPs"})

\* the pager invariant of the operations other than GetSubnetsForInternalIPs
PagerInvariantButSubnets ==
    PagerInvariantOf({"GetInstanceByNodeName", "GetAttachedVnicsForInstance",
                      "GetNodeAddressesForInstance"})

\* C10: a failed backend call of a paginated operation is the last call of
\* the operation, which has returned the error of that call and a nil result.
C10_FailureAborts ==
    \A p \in Procs : \A k \in 1..Len(th[p].calls) :
        (/\ th[p].op \in {"GetInstanceByNodeName", "GetAttachedVnicsForInstance",
                          "GetNodeAddressesForInstance", "GetSubnetsForInternalIPs"}
         /\ ~th[p].calls[k].ok) =>
            /\ k = Len(th[p].calls)
            /\ th[p].pc = "done"
            /\ th[p].err = BackendError(th[p].calls[k].ans)
            /\ th[p].result = <<>>

\* GetVnic fails on the second page of GetAttachedVnicsForInstance, a vnic of
\* the first page already gathered
C10_Witness ==
    /\ th[1].op = "GetAttachedVnicsForInstance" /\ th[1].pc = "done"
    /\ Len(th[1].calls) = 4
    /\ th[1].calls[4].fn = "GetVnic" /\ ~th[1].calls[4].ok
    /\ th[1].calls[3].fn = "ListVnicAttachments" /\ th[1].calls[3].page = 2
    /\ th[1].acc # <<>>
    /\ th[1].err = BackendError("E500")
----------------------------------------------------------------------------
(* Claims about GetSubnetsForInternalIPs, checked under Spec *)

VnicAt(k) == backend.vnics[AttachmentListing[k].VnicID]

\* positions of the Attached attachments whose vnic has a private IP of ips
Hits(ips) ==
    LET InSet(v) == v.PrivateIPAddress # Blank /\ v.PrivateIPAddress \in ips
    IN AttachedWhere(InSet)

\* the first of them in the subnet s
FirstHit(s, ips) ==
    LET S == {k \in Hits(ips) : VnicAt(k).SubnetID = s}
    IN CHOOSE k \in S : \A j \in S : k <= j

\* C11: GetSubnetsForInternalIPs never calls GetSubnet twice for one subnet
\* id; when it has returned without a failed call, the result holds the
\* subnet of every Attached vnic with a private IP of the input exactly once,
\* in the order the subnet ids are first met, and the GetSubnet calls are the
\* ones for the result, each right after the GetVnic of the first such vnic
\* of its subnet.
C11_SubnetsOnce ==
    \A p \in Procs : th[p].op = "GetSubnetsForInternalIPs" =>
        LET ips == th[p].arg
            res == th[p].result
            log == th[p].calls
            gets == CallSeq(log, "GetSubnet")
        IN /\ \A i, j \in 1..Len(gets) : gets[i].arg = gets[j].arg => i = j
           /\ Returned(p) =>
                 /\ {res[i].ID : i \in 1..Len(res)} = {VnicAt(k).SubnetID : k \in Hits(ips)}
                 /\ \A i, j \in 1..Len(res) :
                       i < j => /\ res[i].ID # res[j].ID
                                /\ FirstHit(res[i].ID, ips) < FirstHit(res[j].ID, ips)
                 /\ [i \in 1..Len(gets) |-> gets[i].arg] = [i \in 1..Len(res) |-> res[i].ID]
                 /\ \A q \in CallsTo(log, "GetSubnet") :
                       /\ log[q - 1].fn = "GetVnic"
                       /\ log[q - 1].arg = VnicAt(FirstHit(log[q].arg, ips)).ID

\* two Attached vnics with private IPs of the input in the same subnet
C11_Witness ==
    /\ th[1].op = "GetSubnetsForInternalIPs" /\ Returned(1)
    /\ Hits(th[1].arg) = {1, 2}
    /\ VnicAt(1).SubnetID = VnicAt(2).SubnetID
    /\ th[1].result = <<Subnet("s1")>>
    /\ Cardinality(CallsTo(th[1].calls, "GetVnic")) = 2
----------------------------------------------------------------------------
(* Claims about GetNodeAddressesForInstance, checked under Spec *)

\* the vnic has a non-empty private or public IP that is no IP address
Malformed(v) ==
    \/ (v.PrivateIPAddress # Blank /\ ParseIP(v.PrivateIPAddress) = <<>>)
    \/ (v.PublicIPAddress # Blank /\ ParseIP(v.PublicIPAddress) = <<>>)

\* the records expected of one vnic, as <<type, raw address>>
RecordsOf(v) ==
    (IF v.PrivateIPAddress # Blank THEN << <<"InternalIP", v.PrivateIPAddress>> >> ELSE <<>>)
    \o (IF v.PublicIPAddress # Blank THEN << <<"ExternalIP", v.PublicIPAddress>> >> ELSE <<>>)

RECURSIVE RecordsOfAll(_)
RecordsOfAll(vnics) ==
    IF vnics = <<>> THEN <<>> ELSE RecordsOf(Head(vnics)) \o RecordsOfAll(Tail(vnics))

\* C12: when GetNodeAddressesForInstance has returned without a failed
\* backend call: if an eligible vnic (Attached attachment of the instance,
\* vnic Available) has a non-empty private or public IP that is no IP
\* address, the result is an invalid-address error and no addresses;
\* otherwise it is, for the eligible vnics in listing order, the internal
\* record of each non-empty private IP followed by the external record of
\* each non-empty public IP, every record holding the address its IP parses to.
C12_NodeAddresses ==
    \A p \in Procs :
        (th[p].op = "GetNodeAddressesForInstance" /\ th[p].arg # "" /\ Returned(p)) =>
            LET vnics == ExpectedVnics(th[p].arg)
                want == RecordsOfAll(vnics)
                res == th[p].result
            IN IF \E k \in 1..Len(vnics) : Malformed(vnics[k])
               THEN /\ res = <<>>
                    /\ th[p].err.kind \in {"instance has invalid private address",
                                          "instance has invalid public address"}
               ELSE /\ th[p].err = NilErr
                    /\ Len(res) = Len(want)
                    /\ \A k \in 1..Len(res) :
                          /\ res[k].Type = want[k][1]
                          /\ ParseIP(res[k].Address) = ParseIP(want[k][2])
                          /\ res[k].Address = IPString(ParseIP(want[k][2])[1])

\* two eligible vnics on two pages: the first with both addresses (the
\* private one spelled as an IPv4-mapped address), the second with a public
\* address only
C12_Witness ==
    /\ th[1].op = "GetNodeAddressesForInstance" /\ Returned(1)
    /\ Len(backend.attPages[compartmentOCID]) = 2
    /\ th[1].result = <<NodeAddress("InternalIP", IP5), NodeAddress("ExternalIP", IP6),
                        NodeAddress("ExternalIP", IP6)>>
    /\ backend.vnics["v1"].PrivateIPAddress = IP5Mapped
----------------------------------------------------------------------------
(* GetDefaultSecurityList *)

SecurityListIDs == {"sl1", "sl2", "sl3"}
SecurityList(id, created) == [ID |-> id, TimeCreated |-> created]

\* the subnet handed to GetDefaultSecurityList
SubnetWith(id, ids) == [ID |-> id, SecurityListIDs |-> ids]

\* (mutant) the comparison is After instead of Before
SortedFirstNewest(lists) ==
    {lists[i] : i \in {i \in 1..Len(lists) :
                          \A j \in 1..Len(lists) : ~(lists[i].TimeCreated < lists[j].TimeCreated)}}

\* sort.Slice(lists, TimeCreated.Before) and lists[0]: the lists that may
\* come first, none being created before them (sort.Slice is not stable, so
\* among lists of equal time any may come first)
SortedFirst(lists) ==
    {lists[i] : i \in {i \in 1..Len(lists) :
                          \A j \in 1..Len(lists) : ~(lists[j].TimeCreated < lists[i].TimeCreated)}}

\* the rest of GetDefaultSecurityList once the loop over the ids is over:
\* the states it may return in
DefaultSecurityListReturn(l) ==
    IF Len(l.acc) < 1
    THEN {Return(l, <<>>, Errorf("no SecurityLists found for Subnet", <<l.arg.ID>>))}
    ELSE {Return(l, <<first>>, NilErr) : first \in SortedFirst(l.acc)}

\* GetDefaultSecurityList(subnet) is called; without ids the loop is empty
GetDefaultSecurityList(p, subnet) ==
    /\ th[p].pc = "idle"
    /\ LET l == [Idle EXCEPT !.op = "GetDefaultSecurityList", !.arg = subnet, !.idx = 1] IN
       \E n \in (IF subnet.SecurityListIDs = <<>>
                 THEN DefaultSecurityListReturn(l)
                 ELSE {[l EXCEPT !.pc = "GetSecurityList"]}) :
           th' = [th EXCEPT ![p] = n]
    /\ UNCHANGED <<compartmentOCID, backend>>

\* c.GetSecurityList(id) for the id in hand; after the last id the sort
GetSecurityList(p) ==
    /\ th[p].pc = "GetSecurityList"
    /\ \E out \in Outcomes :
         LET id == th[p].arg.SecurityListIDs[th[p].idx]
             l == Log(th[p], Call("GetSecurityList", "", id, 0, out))
             l2 == [l EXCEPT !.acc = Append(@, backend.securityLists[id]), !.idx = @ + 1]
         IN \E n \in (IF ~out[1] THEN {Return(l, <<>>, out[2])}
                      ELSE IF l2.idx <= Len(l2.arg.SecurityListIDs) THEN {l2}
                      ELSE DefaultSecurityListReturn(l2)) :
                th' = [th EXCEPT ![p] = n]
    /\ UNCHANGED <<compartmentOCID, backend>>

\* the sequences of distinct elements of S
Arrangements(S) ==
    {f \in UNION {[1..n -> S] : n \in 0..Cardinality(S)} :
        \A i, j \in 1..Len(f) : f[i] = f[j] => i = j}

\* security lists with every creation time
InitSecurity ==
    /\ compartmentOCID = ""
    /\ th = [p \in Procs |-> Idle]
    /\ \E created \in [SecurityListIDs -> 1..MaxTime] :
          backend = [securityLists |-> [id \in SecurityListIDs |->
                                           SecurityList(id, created[id])]]
                    @@ Backend(<< <<>> >>, << <<>> >>, <<>>, <<>>, <<>>)

NextSecurity ==
    \/ \E ids \in Arrangements(SecurityListIDs) :
          GetDefaultSecurityList(1, SubnetWith("s1", ids))
    \/ GetSecurityList(1)

SpecSecurity == InitSecurity /\ [][NextSecurity]_vars

\* C13: when GetDefaultSecurityList has returned without a failed
\* GetSecurityList call, it has failed exactly when the subnet has no
\* security-list ids, and otherwise returned one of the subnet's security
\* lists, created no later than any other of them, whatever the order of
\* the ids.
C13_OldestSecurityList ==
    \A p \in Procs : (th[p].op = "GetDefaultSecurityList" /\ Returned(p)) =>
        LET ids == th[p].arg.SecurityListIDs IN
        /\ th[p].err # NilErr <=> ids = <<>>
        /\ ids = <<>> =>
              /\ th[p].result = <<>>
              /\ th[p].err = Errorf("no SecurityLists found for Subnet", <<th[p].arg.ID>>)
        /\ ids # <<>> =>
              /\ Len(th[p].result) = 1
              /\ \E i \in 1..Len(ids) : th[p].result[1] = backend.securityLists[ids[i]]
              /\ \A i \in 1..Len(ids) :
                    th[p].result[1].TimeCreated <= backend.securityLists[ids[i]].TimeCreated
              /\ Len(th[p].calls) = Len(ids)

\* the ids in the order of creation times [T2, T1, T3]: the list of T1
\* is returned
C13_Witness ==
    /\ th[1].op = "GetDefaultSecurityList" /\ Returned(1)
    /\ Len(th[1].arg.SecurityListIDs) = 3
    /\ [i \in 1..3 |-> backend.securityLists[th[1].arg.SecurityListIDs[i]].TimeCreated]
          = <<2, 1, 3>>
    /\ th[1].result[1].TimeCreated = 1
----------------------------------------------------------------------------
(* GetLoadBalancerByName *)

LoadBalancer(id, name) == [ID |-> id, DisplayName |-> name]

\* ListLoadBalancers(compartment, opts)
ListLoadBalancersAnswer(comp, cursor) ==
    LET pg == PageAt(backend.lbPages[comp], cursor)
    IN [items |-> [k \in 1..Len(pg.items) |-> backend.loadBalancers[pg.items[k]]],
        next |-> pg.next]

\* index of the first load balancer of the page with the display name, else 0
FirstNamed(items, name) ==
    LET S == {k \in 1..Len(items) : items[k].DisplayName = name}
    IN IF S = {} THEN 0 ELSE CHOOSE k \in S : \A j \in S : k <= j

\* GetLoadBalancerByName(name) is called: fresh opts
GetLoadBalancerByName(p, name) ==
    /\ th[p].pc = "idle"
    /\ th' = [th EXCEPT ![p] = [Idle EXCEPT !.op = "GetLoadBalancerByName",
                                            !.arg = name, !.pc = "ListLoadBalancers"]]
    /\ UNCHANGED <<compartmentOCID, backend>>

\* one round of the loop: c.ListLoadBalancers, return the first load balancer
\* of the page with the name, else SetNextPageOption; after the last page the
\* SearchError
ListLoadBalancers(p) ==
    /\ th[p].pc = "ListLoadBalancers"
    /\ \E out \in Outcomes :
         LET l == Log(th[p], Call("ListLoadBalancers", compartmentOCID, "",
                                  th[p].page, out))
             r == ListLoadBalancersAnswer(compartmentOCID, th[p].page)
             k == FirstNamed(r.items, th[p].arg)
             sn == SetNextPageOption(r.next, th[p].page)
         IN th' = [th EXCEPT ![p] =
                     IF ~out[1] THEN Return(l, <<>>, out[2])
                     ELSE IF k # 0 THEN Return(l, <<r.items[k]>>, NilErr)
                     ELSE IF sn[1] THEN [l EXCEPT !.page = sn[2]]
                     ELSE Return(l, <<>>,
                                 SearchError("could not find load balancer with name",
                                             <<l.arg>>))]
    /\ UNCHANGED <<compartmentOCID, backend>>

----------------------------------------------------------------------------
(* Termination.  The call log of GetSubnetsForInternalIPs is capped at     *)
(* MaxCalls list calls; here a full log is emptied, so that a loop of the  *)
(* operation is a cycle of states.                                         *)

\* the log of the calls of the operation in flight is full: start it afresh
ForgetCalls(p) ==
    /\ th[p].pc = "SubnetsList"
    /\ Len(th[p].calls) >= MaxCalls
    /\ th' = [th EXCEPT ![p].calls = <<>>]
    /\ UNCHANGED <<compartmentOCID, backend>>

LBNames == {N1, X9}

\* the operations and the arguments they are called with
CallsLive ==
    {<<"GetInstanceByNodeName", name, "ListInstances">> : name \in NodeNames}
    \cup {<<"GetAttachedVnicsForInstance", id, "VnicsList">> : id \in {"i1"}}
    \cup {<<"GetLoadBalancerByName", name, "ListLoadBalancers">> : name \in LBNames}
    \cup {<<"GetSubnetsForInternalIPs", ips, "SubnetsList">> : ips \in IPArgs}

\* caller 1 has just called a paginated operation; every paging of two
\* instances, of two attachments and of two load balancers, each chain
\* ending with the page that has no cursor
InitLive ==
    /\ compartmentOCID \in {"", "c1"}
    /\ \E c \in CallsLive :
         th = [p \in Procs |->
                 IF p = 1 THEN [Idle EXCEPT !.op = c[1], !.arg = c[2], !.pc = c[3]]
                 ELSE Idle]
    /\ \E st1 \in States :
       \E ips \in Splits(<<"i1", "i2">>), aps \in Splits(C1Attachments),
          lps \in Splits(<<"lb1", "lb2">>) :
          backend = [lbPages |-> [c \in Compartments \cup {""} |->
                                     IF c = "c1" THEN Chain(lps) ELSE Chain(<< <<>> >>)],
                     loadBalancers |-> [b \in LoadBalancerIDs |->
                                           LoadBalancer(b, IF b = "lb1" THEN X9 ELSE N1)]]
                    @@ Backend(ips, aps, [i \in {"i1"} |-> Instance(i, st1)], <<>>, <<>>)

NextLive ==
    \/ ListInstances(1)
    \/ ScanList(1)
    \/ ScanGetVnic(1)
    \/ ScanGetInstance(1)
    \/ VnicsList(1)
    \/ VnicsGetVnic(1)
    \/ ListLoadBalancers(1)
    \/ SubnetsList(1)
    \/ ForgetCalls(1)
    \/ SubnetsGetVnic(1)
    \/ SubnetsGetSubnet(1)

\* the position of the caller in its operation
Position ==
    <<compartmentOCID, th[1].pc, th[1].page, th[1].next, th[1].idx,
      Len(th[1].acc), Len(th[1].calls)>>

\* an operation is synchronous and runs on its caller's thread: a step that
\* can be taken is taken
SpecLive == InitLive /\ [][NextLive]_vars /\ WF_Position(NextLive)

PaginatedButSubnets ==
    {"GetInstanceByNodeName", "GetAttachedVnicsForInstance", "GetLoadBalancerByName"}

\* C14: against chains of pages that end with the page without a cursor,
\* the paginated operation the caller issues eventually returns, be it
\* GetInstanceByNodeName (with its vnic scan), GetAttachedVnicsForInstance,
\* GetLoadBalancerByName or GetSubnetsForInternalIPs.
C14_Terminates ==
    \A op \in PaginatedButSubnets \cup {"GetSubnetsForInternalIPs"} :
        (th[1].op = op) ~> (th[1].pc = "done")

\* the operations other than GetSubnetsForInternalIPs eventually return
TerminatesButSubnets ==
    \A op \in PaginatedButSubnets : (th[1].op = op) ~> (th[1].pc = "done")
----------------------------------------------------------------------------
(* A backend that answers a list call with the cursor the call carried.    *)

\* the chain, its last page answering with its own cursor
Repeating(chain) == [chain EXCEPT ![Len(chain)].next = Len(chain)]

\* the pagings of L in exactly two pages
TwoPages(L) == {ps \in Splits(L) : Len(ps) = 2}

\* two pages of instances, of attachments and of load balancers in c1; each
\* of the three chains ends without a cursor or repeats its last page
InitRepeat ==
    /\ compartmentOCID = ""
    /\ th = [p \in Procs |-> Idle]
    /\ \E st1 \in States, rep \in SUBSET {"instPages", "attPages", "lbPages"} :
       \E ips \in TwoPages(<<"i1", "i2">>), aps \in TwoPages(C1Attachments),
          lps \in TwoPages(<<"lb1", "lb2">>) :
          LET b == [lbPages |-> [c \in Compartments \cup {""} |->
                                    IF c = "c1" THEN Chain(lps) ELSE Chain(<< <<>> >>)],
                    loadBalancers |-> [x \in LoadBalancerIDs |->
                                          LoadBalancer(x, IF x = "lb1" THEN X9 ELSE N1)]]
                   @@ Backend(ips, aps, [i \in {"i1"} |-> Instance(i, st1)], <<>>, <<>>)
          IN backend = [f \in DOMAIN b |->
                          IF f \in rep THEN [b[f] EXCEPT !["c1"] = Repeating(@)]
                          ELSE b[f]]

\* the list calls are capped: the log holds at most MaxCalls calls when one
\* is issued
NextRepeat ==
    \/ Configure(1)
    \/ \E name \in NodeNames : GetInstanceByNodeName(1, name)
    \/ Len(th[1].calls) < MaxCalls /\ ListInstances(1)
    \/ Len(th[1].calls) < MaxCalls /\ ScanList(1)
    \/ ScanGetVnic(1)
    \/ ScanGetInstance(1)
    \/ \E id \in InstanceArgs : GetAttachedVnicsForInstance(1, id)
    \/ Len(th[1].calls) < MaxCalls /\ VnicsList(1)
    \/ VnicsGetVnic(1)
    \/ \E name \in LBNames : GetLoadBalancerByName(1, name)
    \/ Len(th[1].calls) < MaxCalls /\ ListLoadBalancers(1)

SpecRepeat == InitRepeat /\ [][NextRepeat]_vars

ListFns == {"ListInstances", "ListVnicAttachments", "ListLoadBalancers"}

\* the cursor the backend answers the list call c with
CursorAnswered(c) ==
    LET chain == CASE c.fn = "ListInstances" -> backend.instPages[c.comp]
                   [] c.fn = "ListVnicAttachments" -> backend.attPages[c.comp]
                   [] c.fn = "ListLoadBalancers" -> backend.lbPages[c.comp]
    IN PageAt(chain, c.page).next

\* the list calls of the log that were answered with the cursor they carried
SameCursorCalls(calls) ==
    {k \in 1..Len(calls) :
        /\ calls[k].fn \in ListFns
        /\ calls[k].ok
        /\ calls[k].page # 0
        /\ CursorAnswered(calls[k]) = calls[k].page}

\* C15: a list call answered with the cursor it was invoked with is fatal:
\* the operation does not issue the same list call again, and it returns an
\* error.
C15_SameCursorFatal ==
    \A p \in Procs : \A k \in SameCursorCalls(th[p].calls) :
        /\ \A j \in (k + 1)..Len(th[p].calls) :
              ~(/\ th[p].calls[j].fn = th[p].calls[k].fn
                /\ th[p].calls[j].page = th[p].calls[k].page)
        /\ th[p].pc = "done" => th[p].err # NilErr
----------------------------------------------------------------------------
(* CreateAndAwaitLoadBalancer, CreateAndAwaitBackendSet,                   *)
(* CreateAndAwaitListener.  arg is what is created: the name of the load   *)
(* balancer, or <<lb.ID, name>> of a backend set or listener; cur holds    *)
(* the id of the work request, then the id read from the work request.     *)

CreateOps ==
    {"CreateAndAwaitLoadBalancer", "CreateAndAwaitBackendSet", "CreateAndAwaitListener"}

ResourceNames == {"web"}

BackendSet(name) == [Name |-> name]

CreateAndAwaitLoadBalancer(p, name) ==
    /\ th[p].pc = "idle"
    /\ th' = [th EXCEPT ![p] = [Idle EXCEPT !.op = "CreateAndAwaitLoadBalancer",
                                            !.arg = name, !.pc = "CreateLoadBalancer"]]
    /\ UNCHANGED <<compartmentOCID, backend>>

CreateAndAwaitBackendSet(p, lb, name) ==
    /\ th[p].pc = "idle"
    /\ th' = [th EXCEPT ![p] = [Idle EXCEPT !.op = "CreateAndAwaitBackendSet",
                                            !.arg = <<lb, name>>, !.pc = "CreateBackendSet"]]
    /\ UNCHANGED <<compartmentOCID, backend>>

CreateAndAwaitListener(p, lb, name) ==
    /\ th[p].pc = "idle"
    /\ th' = [th EXCEPT ![p] = [Idle EXCEPT !.op = "CreateAndAwaitListener",
                                            !.arg = <<lb, name>>, !.pc = "CreateListener"]]
    /\ UNCHANGED <<compartmentOCID, backend>>

\* (mutant) the error of the create call is not tested
CreatedIgnoreError(l, out, id) == [l EXCEPT !.pc = "createPoll", !.cur = <<id>>]

\* req, err := the create call; if err != nil return; else AwaitWorkRequest(req)
Created(l, out, id) ==
    IF ~out[1] THEN Return(l, <<>>, out[2])
    ELSE [l EXCEPT !.pc = "createPoll", !.cur = <<id>>]

\* c.CreateLoadBalancer(nil, nil, c.compartmentOCID, nil, shape, subnets, opts)
CreateLoadBalancer(p) ==
    /\ th[p].pc = "CreateLoadBalancer"
    /\ \E out \in Outcomes, id \in WorkRequestIDs :
         th' = [th EXCEPT ![p] =
                  Created(Log(th[p], Call("CreateLoadBalancer", compartmentOCID,
                                          th[p].arg, 0, out)), out, id)]
    /\ UNCHANGED <<compartmentOCID, backend>>

\* c.CreateBackendSet(lb.ID, bs.Name, ...)
CreateBackendSet(p) ==
    /\ th[p].pc = "CreateBackendSet"
    /\ \E out \in Outcomes, id \in WorkRequestIDs :
         th' = [th EXCEPT ![p] =
                  Created(Log(th[p], Call("CreateBackendSet", "", th[p].arg, 0, out)),
                          out, id)]
    /\ UNCHANGED <<compartmentOCID, backend>>

\* c.CreateListener(lb.ID, listener.Name, ...)
CreateListener(p) ==
    /\ th[p].pc = "CreateListener"
    /\ \E out \in Outcomes, id \in WorkRequestIDs :
         th' = [th EXCEPT ![p] =
                  Created(Log(th[p], Call("CreateListener", "", th[p].arg, 0, out)),
                          out, id)]
    /\ UNCHANGED <<compartmentOCID, backend>>

\* (mutant) the error of AwaitWorkRequest is not tested
AwaitedNoCheck(l) ==
    CASE l.op = "CreateAndAwaitLoadBalancer" ->
             IF l.result = <<>> THEN [l EXCEPT !.pc = "panic"]
             ELSE [l EXCEPT !.pc = "GetLoadBalancer",
                            !.cur = <<l.result[1].LoadBalancerID>>,
                            !.result = <<>>]
      [] l.op = "CreateAndAwaitBackendSet" ->
             [l EXCEPT !.pc = "GetBackendSet", !.result = <<>>]
      [] OTHER -> Return(l, <<>>, NilErr)

\* AwaitWorkRequest has returned (l.result, l.err) to the create operation:
\* return the error; else read the load balancer of result.LoadBalancerID
\* (a nil result panics), read the backend set, or return nil (listener)
Awaited(l) ==
    IF l.err # NilErr THEN Return(l, <<>>, l.err)
    ELSE CASE l.op = "CreateAndAwaitLoadBalancer" ->
                  IF l.result = <<>> THEN [l EXCEPT !.pc = "panic"]
                  ELSE [l EXCEPT !.pc = "GetLoadBalancer",
                                 !.cur = <<l.result[1].LoadBalancerID>>,
                                 !.result = <<>>]
           [] l.op = "CreateAndAwaitBackendSet" ->
                  [l EXCEPT !.pc = "GetBackendSet", !.result = <<>>]
           [] OTHER -> Return(l, <<>>, NilErr)

\* what GetWorkRequest(id) may answer a create operation at one poll
WorkRequestsCreated(id) == {w \in WorkRequestsOf(id) : w.State # "ACCEPTED"}

\* one call of the condition of the AwaitWorkRequest a create operation
\* called, and the return of AwaitWorkRequest to it
CreatePoll(p) ==
    /\ th[p].pc = "createPoll"
    /\ \E out \in {<<<<w>>, NilErr>> : w \in WorkRequestsCreated(th[p].cur[1])}
                  \cup {<<<<>>, e>> : e \in BackendErrors} :
         LET id == th[p].cur[1]
             l1 == Log([th[p] EXCEPT !.attempt = @ + 1],
                       CallAns("GetWorkRequest", "", id, 0, out[2] = NilErr,
                               IF out[2] = NilErr THEN out[1][1].State
                                                  ELSE out[2].detail[1]))
             l2 == [l1 EXCEPT !.resp = out[1]]
             r == ExponentialBackoff(l2, Condition(id, out[1], out[2]))
         IN th' = [th EXCEPT ![p] = IF r.pc = "sleep"
                                    THEN [r EXCEPT !.pc = "createSleep"]
                                    ELSE Awaited(r)]
    /\ UNCHANGED <<compartmentOCID, backend>>

\* time.Sleep between two calls of the condition
CreateSleep(p) ==
    /\ th[p].pc = "createSleep"
    /\ th' = [th EXCEPT ![p] = [@ EXCEPT !.pc = "createPoll", !.slept = @ + 1]]
    /\ UNCHANGED <<compartmentOCID, backend>>

\* return c.GetLoadBalancer(result.LoadBalancerID, opts)
GetLoadBalancer(p) ==
    /\ th[p].pc = "GetLoadBalancer"
    /\ \E out \in Outcomes :
         LET l == Log(th[p], Call("GetLoadBalancer", "", th[p].cur[1], 0, out))
         IN th' = [th EXCEPT ![p] =
                     IF ~out[1] THEN Return(l, <<>>, out[2])
                     ELSE Return(l, <<LoadBalancer(l.cur[1], l.arg)>>, NilErr)]
    /\ UNCHANGED <<compartmentOCID, backend>>

\* return c.GetBackendSet(lb.ID, bs.Name, opts)
GetBackendSet(p) ==
    /\ th[p].pc = "GetBackendSet"
    /\ \E out \in Outcomes :
         LET l == Log(th[p], Call("GetBackendSet", "", th[p].arg, 0, out))
         IN th' = [th EXCEPT ![p] =
                     IF ~out[1] THEN Return(l, <<>>, out[2])
                     ELSE Return(l, <<BackendSet(l.arg[2])>>, NilErr)]
    /\ UNCHANGED <<compartmentOCID, backend>>

InitCreate ==
    /\ compartmentOCID = "c1"
    /\ backend = Backend(<< <<>> >>, << <<>> >>, <<>>, <<>>, <<>>)
    /\ th = [p \in Procs |-> Idle]

NextCreate ==
    \/ \E name \in ResourceNames : CreateAndAwaitLoadBalancer(1, name)
    \/ \E lb \in LoadBalancerIDs, name \in ResourceNames :
          CreateAndAwaitBackendSet(1, lb, name)
    \/ \E lb \in LoadBalancerIDs, name \in ResourceNames :
          CreateAndAwaitListener(1, lb, name)
    \/ CreateLoadBalancer(1)
    \/ CreateBackendSet(1)
    \/ CreateListener(1)
    \/ CreatePoll(1)
    \/ CreateSleep(1)
    \/ GetLoadBalancer(1)
    \/ GetBackendSet(1)
    \/ \E id \in WorkRequestIDs : AwaitWorkRequest(1, id)
    \/ AwaitPoll(1)
    \/ AwaitSleep(1)

SpecCreate == InitCreate /\ [][NextCreate]_vars

----------------------------------------------------------------------------
(* Claims about the create-and-await operations, checked under SpecCreate *)

CreateFn(op) ==
    CASE op = "CreateAndAwaitLoadBalancer" -> "CreateLoadBalancer"
      [] op = "CreateAndAwaitBackendSet" -> "CreateBackendSet"
      [] op = "CreateAndAwaitListener" -> "CreateListener"

CreateFns == {"CreateLoadBalancer", "CreateBackendSet", "CreateListener"}
ReadFns == {"GetLoadBalancer", "GetBackendSet", "GetListener"}

\* the positions of the log that hold a call of one of the functions
CallsOf(calls, fns) == {k \in 1..Len(calls) : calls[k].fn \in fns}

\* the order of the calls of a create operation: the create call first and
\* only there, polls after it only when it succeeded, a read only as the last
\* call and only right after a poll that saw Succeeded; a failed create call
\* or a poll with an error outcome is the last call and its error is returned
CreateOrder(l) ==
    LET L == l.calls IN
    /\ CallsOf(L, CreateFns) = (IF L = <<>> THEN {} ELSE {1})
    /\ L # <<>> => L[1].fn = CreateFn(l.op)
    /\ \A k \in 2..Len(L) :
          /\ L[1].ok
          /\ L[k].fn \in {"GetWorkRequest"} \cup ReadFns
          /\ L[k].fn = "GetWorkRequest" =>
                /\ L[k].arg \in WorkRequestIDs
                /\ \A j \in 2..k : L[j].fn = "GetWorkRequest"
          /\ L[k].fn \in ReadFns =>
                /\ k = Len(L) /\ k >= 3
                /\ L[k - 1].fn = "GetWorkRequest"
                /\ L[k - 1].ok /\ L[k - 1].ans = WorkRequestSucceeded
    /\ (L # <<>> /\ ~L[1].ok) =>
          /\ Len(L) = 1 /\ l.pc = "done" /\ l.result = <<>>
          /\ l.err = BackendError(L[1].ans)
    /\ \A k \in 2..Len(L) :
          (L[k].fn = "GetWorkRequest" /\ ErrorOutcome(L[k])) =>
              /\ k = Len(L) /\ l.pc = "done" /\ l.result = <<>>
              /\ l.err # NilErr
    /\ l.err = ErrWaitTimeout =>
          /\ l.pc = "done" /\ l.result = <<>>
          /\ CallsOf(L, ReadFns) = {}
          /\ Len(L) = 1 + backoffSteps

\* the await of the create operation has succeeded and the operation has
\* returned
AwaitSucceeded(l) ==
    /\ l.op \in CreateOps /\ l.pc = "done"
    /\ \E k \in 1..Len(l.calls) :
          /\ l.calls[k].fn = "GetWorkRequest" /\ l.calls[k].ok
          /\ l.calls[k].ans = WorkRequestSucceeded

\* C16: each create-and-await operation issues one create call, then the
\* polls, then exactly one read of the created resource; polls only after
\* the create call succeeded, the read only after the await succeeded, and
\* an error at the create or await step is returned with no later step.
C16_CreateAwaitRead ==
    \A p \in Procs : th[p].op \in CreateOps =>
        /\ CreateOrder(th[p])
        /\ AwaitSucceeded(th[p]) => Cardinality(CallsOf(th[p].calls, ReadFns)) = 1

\* C16 as amended: the same order, with exactly one read after the await
\* succeeded in CreateAndAwaitLoadBalancer (of the load balancer the work
\* request names) and CreateAndAwaitBackendSet, and no read at all in
\* CreateAndAwaitListener, which returns nil after the await.
C16_CreateAwaitReadButListener ==
    \A p \in Procs : th[p].op \in CreateOps =>
        LET L == th[p].calls IN
        /\ CreateOrder(th[p])
        /\ AwaitSucceeded(th[p]) =>
              CASE th[p].op = "CreateAndAwaitLoadBalancer" ->
                       /\ CallsOf(L, ReadFns) = {Len(L)}
                       /\ L[Len(L)].fn = "GetLoadBalancer"
                       /\ L[Len(L)].arg = th[p].resp[1].LoadBalancerID
                [] th[p].op = "CreateAndAwaitBackendSet" ->
                       /\ CallsOf(L, ReadFns) = {Len(L)}
                       /\ L[Len(L)].fn = "GetBackendSet"
                       /\ L[Len(L)].arg = th[p].arg
                [] OTHER ->
                       /\ CallsOf(L, ReadFns) = {}
                       /\ th[p].result = <<>> /\ th[p].err = NilErr

\* a backend set created, awaited through three polls and read
C16_Witness ==
    /\ th[1].op = "CreateAndAwaitBackendSet" /\ th[1].pc = "done"
    /\ Len(th[1].calls) = 5 /\ th[1].calls[5].fn = "GetBackendSet"
    /\ th[1].result = <<BackendSet("web")>> /\ th[1].err = NilErr
\* C20: AwaitWorkRequest returns a work request exactly when it returns no
\* error, and the work request is the one its last poll observed in state
\* Succeeded; CreateAndAwaitLoadBalancer never dereferences a nil work
\* request, and the id it reads the load balancer with is the one of the
\* Succeeded work request.
C20_WorkRequestIffNoError ==
    \A p \in Procs :
        LET L == th[p].calls IN
        /\ (th[p].op = "AwaitWorkRequest" /\ th[p].pc = "done") =>
              /\ th[p].result # <<>> <=> th[p].err = NilErr
              /\ th[p].result # <<>> =>
                    /\ th[p].result[1].State = WorkRequestSucceeded
                    /\ th[p].result = th[p].resp
                    /\ L[Len(L)].ok /\ L[Len(L)].ans = WorkRequestSucceeded
        /\ th[p].op = "CreateAndAwaitLoadBalancer" =>
              /\ th[p].pc # "panic"
              /\ \A k \in 1..Len(L) : L[k].fn = "GetLoadBalancer" =>
                    /\ L[k - 1].fn = "GetWorkRequest"
                    /\ L[k - 1].ok /\ L[k - 1].ans = WorkRequestSucceeded
                    /\ th[p].resp[1].State = WorkRequestSucceeded
                    /\ L[k].arg = th[p].resp[1].LoadBalancerID
                    /\ L[k].arg \in LoadBalancerIDs

\* CreateAndAwaitLoadBalancer has returned the timeout of its await
C20_Witness ==
    /\ th[1].op = "CreateAndAwaitLoadBalancer" /\ th[1].pc = "done"
    /\ th[1].err = ErrWaitTimeout /\ th[1].result = <<>>
    /\ Len(th[1].calls) = 1 + backoffSteps
----------------------------------------------------------------------------
(* Claims about live interfaces, checked under Spec *)

\* positions of the Attached attachments whose vnic is Available
LiveAt == LET IsAvailable(v) == v.State = ResourceAvailable IN AttachedWhere(IsAvailable)

\* Only the vnics that are Available and on an Attached attachment
\* contribute to the results of the operations in ops that have returned
\* without a failed call: the vnics returned, the address records returned
\* and the subnets returned each come from such a vnic.
OnlyLiveOf(ops) ==
    \A p \in Procs : (th[p].op \in ops /\ Returned(p)) =>
        LET res == th[p].result IN
        CASE th[p].op = "GetAttachedVnicsForInstance" ->
                 \A i \in 1..Len(res) : \E k \in LiveAt :
                     /\ VnicAt(k) = res[i]
                     /\ AttachmentListing[k].InstanceID = th[p].arg
          [] th[p].op = "GetNodeAddressesForInstance" ->
                 \A i \in 1..Len(res) : \E k \in LiveAt :
                     /\ AttachmentListing[k].InstanceID = th[p].arg
                     /\ \E r \in {RecordsOf(VnicAt(k))[j] : j \in 1..Len(RecordsOf(VnicAt(k)))} :
                           /\ res[i].Type = r[1]
                           /\ ParseIP(res[i].Address) = ParseIP(r[2])
          [] th[p].op = "GetSubnetsForInternalIPs" ->
                 \A i \in 1..Len(res) : \E k \in LiveAt :
                     /\ VnicAt(k).SubnetID = res[i].ID
                     /\ VnicAt(k).PrivateIPAddress \in th[p].arg
          [] OTHER -> TRUE

\* C17: a vnic contributes to the output of GetAttachedVnicsForInstance,
\* GetNodeAddressesForInstance and GetSubnetsForInternalIPs only if its
\* attachment is Attached and the vnic itself is Available.
C17_OnlyLiveContribute ==
    OnlyLiveOf({"GetAttachedVnicsForInstance", "GetNodeAddressesForInstance",
                "GetSubnetsForInternalIPs"})

\* the same of the two operations on the vnics of an instance
OnlyLiveButSubnets ==
    OnlyLiveOf({"GetAttachedVnicsForInstance", "GetNodeAddressesForInstance"})
----------------------------------------------------------------------------
(* Claims about the vnic scan, checked under Spec *)

----------------------------------------------------------------------------
(* Two callers at once, and Compartment(id) at any time.  A call of        *)
(* Compartment made while GetInstanceByNodeName is in flight is noted in   *)
(* the log of that operation, the first such call only.                    *)

InFlight(l) == l.pc \notin {"idle", "done"}

Noted(l) == CallsTo(l.calls, "Compartment") # {}

\* c.compartmentOCID = id, by any goroutine, at any time; the calls that
\* leave the field as it is are left out
CompartmentInFlight(id) ==
    /\ id # compartmentOCID
    /\ compartmentOCID' = id
    /\ th' = [p \in Procs |->
                IF th[p].op = "GetInstanceByNodeName" /\ InFlight(th[p]) /\ ~Noted(th[p])
                THEN Log(th[p], CallAns("Compartment", "", "", 0, TRUE, ""))
                ELSE th[p]]
    /\ UNCHANGED backend

\* what GetWorkRequest(id) may answer at one poll when two callers run
WorkRequestsRace(id) ==
    {w \in WorkRequestsOf(id) :
        w.State # "ACCEPTED" /\ w.Message # "m2" /\ w.LoadBalancerID # "lb2"}

\* instances and attachments of c1 and of c2 in two pages each, so that a
\* cursor of one compartment is answered in the other
InitRace ==
    /\ compartmentOCID = ""
    /\ th = [p \in Procs |-> Idle]
    /\ \E st1 \in States :
         LET b == Backend(<< <<"i1">>, <<"i2">> >>, << <<"a1">>, <<"a2">> >>,
                          [i \in {"i1"} |-> Instance(i, st1)], <<>>, <<>>)
         IN backend = [b EXCEPT !.instPages["c2"] = Chain(<< <<>>, <<"i9">> >>),
                                !.attPages["c2"] = Chain(<< <<"a9">>, <<>> >>)]

NextRace ==
    \/ \E id \in Compartments : CompartmentInFlight(id)
    \/ \E name \in {N10, Blank} : GetInstanceByNodeName(1, name)
    \/ GetInstanceByNodeName(2, N1)
    \/ \E p \in Procs : ListInstances(p)
    \/ \E p \in Procs : ScanList(p)
    \/ \E p \in Procs : ScanGetVnic(p)
    \/ \E p \in Procs : ScanGetInstance(p)
    \/ \E id \in WorkRequestIDs : AwaitWorkRequest(2, id)
    \/ AwaitPollFrom(2, WorkRequestsRace(th[2].arg))
    \/ AwaitSleep(2)

SpecRace == InitRace /\ [][NextRace]_vars
----------------------------------------------------------------------------
(* Claims about the shared compartment field, checked under SpecRace *)

\* what GetInstanceByNodeName(name) returns when it runs alone in
\* compartment c and no backend call fails, as <<result, err>>
ResolveAlone(c, name) ==
    LET iids == Listed(backend.instPages[c])
        aids == Listed(backend.attPages[c])
        insts == [k \in 1..Len(iids) |-> backend.instances[iids[k]]]
        atts == [k \in 1..Len(aids) |-> backend.attachments[aids[k]]]
        IsRunning(i) == i.State = ResourceRunning
        IsCandidate(a) ==
            LET v == backend.vnics[a.VnicID] IN
            /\ a.State = ResourceAttached
            /\ \/ v.PublicIPAddress = name
               \/ (v.HostnameLabel # Blank /\ HasPrefix(name, v.HostnameLabel))
            /\ backend.instances[a.InstanceID].State = ResourceRunning
        running == SelectSeq(insts, IsRunning)
        cands == SelectSeq(atts, IsCandidate)
    IN CASE name = Blank -> <<<<>>, Errorf("blank nodeName", <<>>)>>
         [] name # Blank /\ Len(running) = 1 -> <<<<running[1]>>, NilErr>>
         [] name # Blank /\ Len(running) > 1 ->
                <<<<>>, Errorf("expected one instance with display name",
                               <<name, Len(running)>>)>>
         [] name # Blank /\ Len(running) = 0 /\ Len(cands) = 1 ->
                <<<<backend.instances[cands[1].InstanceID]>>, NilErr>>
         [] name # Blank /\ Len(running) = 0 /\ Len(cands) > 1 ->
                <<<<>>, Errorf("expected one instance vnic ip/hostname",
                               <<name, Len(cands)>>)>>
         [] OTHER -> <<<<>>, SearchError("could not find instance for node name",
                                        <<name>>)>>

\* what AwaitWorkRequest(id) returns given the polls it made and the answer
\* of the last of them, as <<result, err>>
AwaitAlone(id, polls, answer) ==
    LET last == polls[Len(polls)] IN
    CASE ~last.ok -> <<<<>>, BackendError(last.ans)>>
      [] last.ok /\ last.ans = WorkRequestSucceeded -> <<answer, NilErr>>
      [] last.ok /\ last.ans = WorkRequestFailed ->
             <<<<>>, Errorf("WorkRequest failed", <<id, answer[1].Message>>)>>
      [] OTHER -> <<<<>>, ErrWaitTimeout>>

\* the calls of the log to the two list functions of GetInstanceByNodeName
ListCalls(calls) ==
    CallsTo(calls, "ListInstances") \cup CallsTo(calls, "ListVnicAttachments")

\* C18: the compartment field is the only state the operations share.  Of a
\* GetInstanceByNodeName during which Compartment was not called, all list
\* calls carry one compartment id and, no call failing, the result is the
\* one the operation gives alone in that compartment, whatever the other
\* caller does meanwhile; an AwaitWorkRequest returns what its own polls
\* determine, its log holding its own polls only.
C18_CompartmentOnlySharedState ==
    \A p \in Procs :
        LET L == th[p].calls IN
        /\ (th[p].op = "GetInstanceByNodeName" /\ ~Noted(th[p])) =>
              /\ \A j, k \in ListCalls(L) : L[j].comp = L[k].comp
              /\ Returned(p) =>
                    \A c \in IF L = <<>> THEN Compartments ELSE {L[1].comp} :
                        <<th[p].result, th[p].err>> = ResolveAlone(c, th[p].arg)
        /\ th[p].op = "AwaitWorkRequest" =>
              /\ \A k \in 1..Len(L) : L[k].fn = "GetWorkRequest" /\ L[k].arg = th[p].arg
              /\ Len(L) = th[p].attempt
              /\ th[p].pc = "done" =>
                    <<th[p].result, th[p].err>> = AwaitAlone(th[p].arg, L, th[p].resp)

\* Compartment("c2") was called between the two ListInstances calls of
\* caller 1 in c1: the second call went to c2 with the cursor of c1, and
\* the Running instances of both compartments make the ambiguity error that
\* neither compartment gives alone; meanwhile caller 2 awaited a work
\* request through three polls, undisturbed
C18_Witness ==
    /\ th[1].op = "GetInstanceByNodeName" /\ Returned(1)
    /\ Len(th[1].calls) = 3
    /\ th[1].calls[1].fn = "ListInstances" /\ th[1].calls[1].comp = "c1"
    /\ th[1].calls[2].fn = "Compartment"
    /\ th[1].calls[3].fn = "ListInstances" /\ th[1].calls[3].comp = "c2"
    /\ th[1].calls[3].page = 2
    /\ th[1].err = Errorf("expected one instance with display name", <<N10, 2>>)
    /\ ResolveAlone("c1", N10) = <<<<Instance("i1", ResourceRunning)>>, NilErr>>
    /\ ResolveAlone("c2", N10) = <<<<Instance("i9", ResourceRunning)>>, NilErr>>
    /\ th[2].op = "AwaitWorkRequest" /\ th[2].pc = "done"
    /\ Len(th[2].calls) = 3 /\ th[2].err = NilErr
====
